---- MODULE Spec2Model ----
(***************************************************************************)
(* MoMentor: the MomentumVola allocation run (backend/app/algo/strategy.py) *)
(* and the rebalancing move planner (backend/app/services/rebalancing.py).  *)
(*                                                                         *)
(* Decimal percentages are integers in units of 0.0001, money and prices   *)
(* are integers, an Optional value is <<>> (None) or <<v>>.                *)
(***************************************************************************)
EXTENDS Integers, Sequences, FiniteSets, TLC

\* ---------------------------------------------------------------- bounds
MaxScore == 1
MaxClose == 2
MaxMonthly == 1
MaxShares == 2
MaxPrice == 2
MaxCapital == 4

\* ------------------------------------------------------ program constants
SMA_WINDOW == 220
TOP_N == 4
ONE == 10000
ETF_ALLOCATION == 3000
PRECISION_DIGITS == 4

ETF_SYMBOL == "IE00B5BMR087"
ALIAS_SYMBOL == "GOOGL"

\* ------------------------------------------------------------ input sets
Symbols == {"GOOGL", "GOOG", "AAPL", "MSFT", "NVDA", "AMZN"}
Sp500Lists == SUBSET Symbols
Nasdaq100Lists == {Symbols, {"GOOGL"}, {"GOOGL", "AAPL", "MSFT"}, {}}

None == <<>>
Some(v) == <<v>>
NaN == -1

\* MomentumVolaStrategy.get_allocations: locals and position in the code
VARIABLES pc, sp500_tickers, nasdaq100_tickers, common_tickers, visited,
          filtered_stocks, score_i, scores, top_4_tickers, allocations,
          error, stages
\* whether the fetch of the latest iteration of the step 4 loop raised
VARIABLES last_fetch
\* check_spy_market_condition: fetched history and returned value
VARIABLES spy_history, market_condition
\* the ticker and the frame `data` of the latest iteration of the step 4
\* loop, where the loop is run on its own
VARIABLES trend_data
\* calculate_momentum_vola: fetched data and returned value
VARIABLES spc, score_fetch, score_result
\* RebalancingService: arguments and returned move lists
VARIABLES rpc, previous_positions, target_allocations, current_prices,
          total_capital, cashflow_moves, swap_moves
\* the tables of the database (committed rows) and the next primary key of
\* algorithm_runs
VARIABLES algorithm_runs, recommended_allocations, optimized_moves_cashflow,
          optimized_moves_swaps, actual_positions, actual_cash, next_run_id
\* generate_algorithm_run: per invocation, its position in the code, its
\* locals and the rows its session has added but not committed
VARIABLES invocation
\* confirm_positions: the latest response
VARIABLES confirm_response
\* _fetch_from_yahoo: arguments, loop variable, the price cache table, what
\* Yahoo answered to the latest attempt, and the outcome of the call
VARIABLES fetch_pc, fetch_symbols, retry_count, attempt, attempts_made,
          price_cache, yahoo, fetch_outcome

strategyVars == <<pc, sp500_tickers, nasdaq100_tickers, common_tickers,
                  visited, filtered_stocks, score_i, scores, top_4_tickers,
                  allocations, error, stages, last_fetch>>
regimeVars == <<spy_history, market_condition>>
rebalancingVars == <<rpc, previous_positions, target_allocations,
                     current_prices, total_capital, cashflow_moves,
                     swap_moves>>
scorerVars == <<spc, score_fetch, score_result>>
trendVars == <<trend_data>>
tableVars == <<algorithm_runs, recommended_allocations,
               optimized_moves_cashflow, optimized_moves_swaps,
               actual_positions, actual_cash, next_run_id>>
runsVars == <<tableVars, invocation, confirm_response>>
fetchVars == <<fetch_pc, fetch_symbols, retry_count, attempt, attempts_made,
               price_cache, yahoo, fetch_outcome>>
serviceVars == <<runsVars, fetchVars>>
vars == <<strategyVars, regimeVars, rebalancingVars, scorerVars, trendVars,
          serviceVars>>

\* ------------------------------------------------------- generic helpers
RECURSIVE SumRange(_, _, _)
SumRange(f, lo, hi) ==
    IF lo > hi THEN 0
    ELSE IF lo = hi THEN f[lo]
    ELSE LET mid == (lo + hi) \div 2
         IN  SumRange(f, lo, mid) + SumRange(f, mid + 1, hi)

RECURSIVE Pow10(_)
Pow10(n) == IF n = 0 THEN 1 ELSE 10 * Pow10(n - 1)

\* dict[k] = v on an insertion-ordered dict: a sequence of (key, value)
dict_keys(d) == {d[i].key : i \in 1..Len(d)}
dict_get(d, k) == (CHOOSE i \in 1..Len(d) : d[i].key = k)
dict_lookup(d, k) == d[dict_get(d, k)].value
dict_put(d, k, v) ==
    IF k \in dict_keys(d)
    THEN [d EXCEPT ![dict_get(d, k)] = [key |-> k, value |-> v]]
    ELSE Append(d, [key |-> k, value |-> v])

\* ------------------------------------------------- daily price histories
\* yf.Ticker(..).history(..): the fetch raises, or yields rows of closes,
\* some of which are not numeric (NaN after pd.to_numeric(errors='coerce')).
FetchFailed == [failed |-> TRUE, rows |-> <<>>]
History(n, old, base, last, nanAt) ==
    [failed |-> FALSE,
     rows |-> [i \in 1..n |-> IF i = nanAt THEN NaN
                              ELSE IF i = n THEN last
                              ELSE IF i = 1 THEN old
                              ELSE base]]
HistoryLens == {0, SMA_WINDOW - 1, SMA_WINDOW, SMA_WINDOW + 1, SMA_WINDOW + 2}
Histories ==
    {FetchFailed} \cup
    {History(n, old, base, last, nanAt) :
        n \in HistoryLens, old \in 1..MaxClose, base \in 1..MaxClose,
        last \in 1..MaxClose, nanAt \in {0, 1, SMA_WINDOW, SMA_WINDOW + 1}}
TrendHistories ==
    {FetchFailed} \cup
    {History(n, base, base, last, 0) :
        n \in HistoryLens, base \in 1..MaxClose, last \in 1..MaxClose}

\* data.dropna(subset=['Close'])
dropna(rows) == SelectSeq(rows, LAMBDA c : c # NaN)

\* data['Close'].rolling(window=220).mean().iloc[-1] compared with the
\* latest close: close > sum/window, kept in integers as close*window > sum.
\* variant: a close equal to the average passes
AboveSma_or_equal(closes) ==
    LET n == Len(closes)
        total == SumRange(closes, n - SMA_WINDOW + 1, n)
    IN  closes[n] * SMA_WINDOW >= total
AboveSma(closes) ==
    LET n == Len(closes)
        total == SumRange(closes, n - SMA_WINDOW + 1, n)
    IN  closes[n] * SMA_WINDOW > total

check_spy_market_condition(h) ==
    IF h.failed THEN FALSE
    ELSE LET spy_data == dropna(h.rows)
         IN  IF Len(spy_data) < SMA_WINDOW THEN FALSE
             ELSE AboveSma(spy_data)

\* variant: exactly 220 closes are not enough
passes_sma_filter_longer(h) ==
    IF h.failed THEN FALSE
    ELSE LET data == dropna(h.rows)
         IN  IF Len(data) > SMA_WINDOW THEN AboveSma(data) ELSE FALSE
\* the body of the per-ticker loop of step 4
passes_sma_filter(h) ==
    IF h.failed THEN FALSE
    ELSE LET data == dropna(h.rows)
         IN  IF Len(data) >= SMA_WINDOW THEN AboveSma(data) ELSE FALSE

\* ------------------------------------------------------- step 2: universe
intersect_tickers(sp, nd) == sp \cap nd
\* variant: the alias is kept in the universe
exclude_alias_kept(tickers) == tickers
exclude_alias(tickers) ==
    IF ALIAS_SYMBOL \in tickers THEN tickers \ {ALIAS_SYMBOL} ELSE tickers
resolve_universe(sp, nd) == exclude_alias(intersect_tickers(sp, nd))

\* ------------------------------------------------------------- step 5
\* result of calculate_momentum_vola: None or a float score
ScoreResults == {None} \cup {Some(s) : s \in 0..MaxScore}

\* ---------------------------------------------- float64 values of pandas
\* a float is a fraction n/d in lowest terms, +inf or NaN
RECURSIVE gcd(_, _)
gcd(a, b) == IF b = 0 THEN a ELSE gcd(b, a % b)
f_abs_int(n) == IF n < 0 THEN 0 - n ELSE n
Fin(n, d) ==
    LET g == gcd(f_abs_int(n), d)
    IN  [k |-> "fin", n |-> n \div g, d |-> d \div g]
INF == [k |-> "inf", n |-> 1, d |-> 0]
NEG_INF == [k |-> "inf", n |-> 0 - 1, d |-> 0]
NAN == [k |-> "nan", n |-> 0, d |-> 0]
f_neg(a) == [a EXCEPT !.n = 0 - a.n]
f_add(a, b) ==
    IF a.k = "nan" \/ b.k = "nan" THEN NAN
    ELSE IF a.k = "inf" /\ b.k = "inf" THEN IF a.n = b.n THEN a ELSE NAN
    ELSE IF a.k = "inf" THEN a
    ELSE IF b.k = "inf" THEN b
    ELSE LET l == (a.d \div gcd(a.d, b.d)) * b.d
         IN  Fin(a.n * (l \div a.d) + b.n * (l \div b.d), l)
f_sub(a, b) == f_add(a, f_neg(b))
f_abs(a) == [a EXCEPT !.n = f_abs_int(a.n)]
f_less(a, b) ==
    IF a.k = "inf" THEN a.n < 0 /\ b # a
    ELSE IF b.k = "inf" THEN b.n > 0
    ELSE a.n * b.d < b.n * a.d
\* DataFrame.max(axis=1) and Series.mean() skip NaN
f_max(a, b) ==
    IF a.k = "nan" THEN b
    ELSE IF b.k = "nan" THEN a
    ELSE IF f_less(a, b) THEN b ELSE a
\* a * (n/d) for a constant n/d > 0
f_scale(a, n, d) ==
    IF a.k # "fin" THEN a
    ELSE LET g == gcd(f_abs_int(a.n), d)
         IN  Fin((a.n \div g) * n, a.d * (d \div g))
f_sign(n) == IF n < 0 THEN 0 - 1 ELSE 1
f_div(a, b) ==
    IF a.k = "nan" \/ b.k = "nan" THEN NAN
    ELSE IF a.k = "inf" THEN
         IF b.k = "inf" THEN NAN
         ELSE [a EXCEPT !.n = a.n * f_sign(b.n)]
    ELSE IF b.k = "inf" THEN Fin(0, 1)
    ELSE IF b.n = 0 THEN
         IF a.n = 0 THEN NAN ELSE IF a.n > 0 THEN INF ELSE NEG_INF
    ELSE LET g1 == gcd(f_abs_int(a.n), f_abs_int(b.n))
             g2 == gcd(a.d, b.d)
         IN  Fin(f_sign(b.n) * (a.n \div g1) * (b.d \div g2),
                 (a.d \div g2) * (f_abs_int(b.n) \div g1))
RECURSIVE f_sum(_)
f_sum(xs) == IF xs = <<>> THEN Fin(0, 1) ELSE f_add(Head(xs), f_sum(Tail(xs)))
f_mean(xs) ==
    LET kept == SelectSeq(xs, LAMBDA x : x.k # "nan")
    IN  IF kept = <<>> THEN NAN
        ELSE LET total == f_sum(kept)
             IN  IF total.k # "fin" THEN total
                 ELSE f_scale(total, 1, Len(kept))
is_zero(a) == a.k = "fin" /\ a.n = 0
isna(a) == a.k = "nan"
\* s.iloc[-count:]
tail_rows(xs, count) ==
    IF Len(xs) <= count THEN xs ELSE SubSeq(xs, Len(xs) - count + 1, Len(xs))

\* ---------------------------------------------------- calculate_wilder_atr
true_range(df, i) ==
    LET high_low == f_sub(df[i].High, df[i].Low)
        high_close == IF i = 1 THEN NAN
                      ELSE f_abs(f_sub(df[i].High, df[i - 1].Close))
        low_close == IF i = 1 THEN NAN
                     ELSE f_abs(f_sub(df[i].Low, df[i - 1].Close))
    IN  f_max(high_low, f_max(high_close, low_close))
\* Series.ewm(alpha=1/period, adjust=False).mean(): y[1] = x[1],
\* y[i] = (1 - alpha) * y[i-1] + alpha * x[i]
RECURSIVE ewm_mean(_, _)
ewm_mean(xs, period) ==
    IF Len(xs) <= 1 THEN xs
    ELSE LET before == ewm_mean(SubSeq(xs, 1, Len(xs) - 1), period)
         IN  Append(before,
                    f_add(f_scale(before[Len(before)], period - 1, period),
                          f_scale(xs[Len(xs)], 1, period)))
calculate_wilder_atr(df, period) ==
    ewm_mean([i \in 1..Len(df) |-> true_range(df, i)], period)

\* -------------------------------------------------- calculate_momentum_vola
MIN_DAILY_ROWS == 100
MIN_MONTHS == 8
MOMENTUM_MONTHS == 3
ATR_PERIOD == 8
\* data_mo['Close'].pct_change()
pct_change(df) ==
    [i \in 1..Len(df) |->
        IF i = 1 THEN NAN
        ELSE f_sub(f_div(df[i].Close, df[i - 1].Close), Fin(1, 1))]
momentum_of(data_mo) == f_mean(tail_rows(pct_change(data_mo), MOMENTUM_MONTHS))
\* variant: the ATR is computed on the trailing rows alone
volatility_of_window(data_mo) ==
    f_mean(calculate_wilder_atr(tail_rows(data_mo, ATR_PERIOD), ATR_PERIOD))
volatility_of(data_mo) ==
    f_mean(tail_rows(calculate_wilder_atr(data_mo, ATR_PERIOD), ATR_PERIOD))
\* the daily frame is kept as its row counts before and after the cleaning
\* and as the month-end rows resample('ME').last().dropna() makes of it
calculate_momentum_vola(fetch) ==
    IF fetch.failed THEN None
    ELSE IF fetch.daily_rows < MIN_DAILY_ROWS THEN None
    ELSE IF fetch.clean_rows < MIN_DAILY_ROWS THEN None
    ELSE IF Len(fetch.data_mo) < MIN_MONTHS THEN None
    ELSE LET momentum == momentum_of(fetch.data_mo)
             volatility == volatility_of(fetch.data_mo)
         IN  IF is_zero(volatility) \/ isna(volatility) \/ isna(momentum)
             THEN None
             ELSE Some(f_div(momentum, volatility))

\* ------------------------------------------------------------- step 6
\* sorted(scores, key=scores.get, reverse=True): stable, descending
RECURSIVE insert_desc(_, _)
insert_desc(sorted, e) ==
    IF sorted = <<>> THEN <<e>>
    ELSE IF Head(sorted).value >= e.value
         THEN <<Head(sorted)>> \o insert_desc(Tail(sorted), e)
         ELSE <<e>> \o sorted
RECURSIVE sorted_desc(_)
sorted_desc(d) ==
    IF d = <<>> THEN <<>>
    ELSE insert_desc(sorted_desc(SubSeq(d, 1, Len(d) - 1)), d[Len(d)])
\* variant: the keys in insertion order, not sorted
ranked_tickers_unsorted(d) == [i \in 1..Len(d) |-> d[i].key]
ranked_tickers(d) ==
    LET s == sorted_desc(d) IN [i \in 1..Len(s) |-> s[i].key]
take(s, n) == SubSeq(s, 1, IF Len(s) < n THEN Len(s) ELSE n)

\* ------------------------------------------------------------- step 7
\* variant: the share is split among one more symbol than selected
decimal_div_wider(a, k) ==
    (a * Pow10(PRECISION_DIGITS)) \div (k + 1)
\* Decimal division, kept to 2*PRECISION_DIGITS decimals (half-even on the
\* last kept digit); the result is in units of 10^-8.
decimal_div(a, k) ==
    LET num == a * Pow10(PRECISION_DIGITS)
        q == num \div k
        r == num % k
    IN  IF 2 * r > k \/ (2 * r = k /\ q % 2 = 1) THEN q + 1 ELSE q
\* variant: the quotient is rounded up
quantize_down_up(x) ==
    (x + Pow10(PRECISION_DIGITS) - 1) \div Pow10(PRECISION_DIGITS)
\* per_stock.quantize(Decimal("0.0001"), rounding=ROUND_DOWN)
quantize_down(x) == x \div Pow10(PRECISION_DIGITS)

stock_allocation_total == ONE - ETF_ALLOCATION

\* variant: the last stock is quantized like the others
last_stock_percentage_quantized(allocated, per_stock) ==
    quantize_down(per_stock)
last_stock_percentage(allocated, per_stock) ==
    ONE - ETF_ALLOCATION - allocated

RECURSIVE stock_allocations(_, _, _, _)
stock_allocations(tickers, i, per_stock, allocated) ==
    IF i > Len(tickers) THEN <<>>
    ELSE IF i < Len(tickers)
         THEN LET alloc == quantize_down(per_stock)
              IN  <<[symbol |-> tickers[i], percentage |-> alloc]>>
                  \o stock_allocations(tickers, i + 1, per_stock,
                                       allocated + alloc)
         ELSE <<[symbol |-> tickers[i],
                 percentage |-> last_stock_percentage(allocated, per_stock)]>>

build_allocations(tickers) ==
    <<[symbol |-> ETF_SYMBOL, percentage |-> ETF_ALLOCATION]>> \o
    (IF Len(tickers) > 0
     THEN stock_allocations(tickers, 1,
                            decimal_div(stock_allocation_total, Len(tickers)),
                            0)
     ELSE <<>>)

\* ------------------------------------------- MomentumVolaStrategy actions
NoError == "none"
EmptyUniverseError == "No common stocks found between S&P 500 and NASDAQ-100"
MarketConditionNotMetError == "SPY is below its 220-day moving average. Market condition not met."
NoEligibleSymbolsError == "No stocks passed the 220-day MA filter"
NoScoresError == "Unable to calculate MomentumVola scores for any stocks"

StrategyIdle ==
    /\ pc = "universe"
    /\ sp500_tickers = {}
    /\ nasdaq100_tickers = {}
    /\ common_tickers = {}
    /\ visited = {}
    /\ filtered_stocks = <<>>
    /\ score_i = 1
    /\ scores = <<>>
    /\ top_4_tickers = <<>>
    /\ allocations = <<>>
    /\ error = NoError
    /\ stages = <<>>
    /\ last_fetch = None

RegimeIdle ==
    /\ spy_history = FetchFailed
    /\ market_condition = None

RebalancingIdle ==
    /\ rpc = "idle"
    /\ previous_positions = <<>>
    /\ target_allocations = <<>>
    /\ current_prices = <<>>
    /\ total_capital = 0
    /\ cashflow_moves = <<>>
    /\ swap_moves = <<>>

\* ------------------------------------------------- runs in the database
\* the calls of generate_algorithm_run, in the order they are entered; the
\* scheduler thread and the request thread run at most one call each
MaxInvocations == 2
Invocations == 1..MaxInvocations
MaxConcurrent == 2
NoCapitalError == "No capital available. Please provide initial capital for the first run."
NoRows == [runs |-> {}, allocations |-> {}, cashflow |-> {}, swaps |-> {}]
IdleInvocation ==
    [pc |-> "idle", manual_capital |-> None, total_capital |-> 0,
     uninvested_cash |-> 0, last_run |-> None, run |-> None,
     previous_run |-> None, current_prices |-> <<>>, error |-> "none",
     pending |-> NoRows]
NoResponse == "none"
EmptyDatabase ==
    /\ algorithm_runs = {}
    /\ recommended_allocations = {}
    /\ optimized_moves_cashflow = {}
    /\ optimized_moves_swaps = {}
    /\ actual_positions = {}
    /\ actual_cash = {}
    /\ next_run_id = 1
RunsIdle ==
    /\ EmptyDatabase
    /\ invocation = [p \in Invocations |-> IdleInvocation]
    /\ confirm_response = NoResponse
FetchUniverse == {"AAA", "BBB"}
FetchIdle ==
    /\ fetch_pc = "idle"
    /\ fetch_symbols = {}
    /\ retry_count = 0
    /\ attempt = 0
    /\ attempts_made = 0
    /\ price_cache = [s \in FetchUniverse |-> None]
    /\ yahoo = None
    /\ fetch_outcome = None
ServiceIdle == RunsIdle /\ FetchIdle

TrendIdle == trend_data = None

ScorerIdle ==
    /\ spc = "idle"
    /\ score_fetch = [failed |-> TRUE]
    /\ score_result = None

Init ==
    /\ StrategyIdle /\ RegimeIdle /\ RebalancingIdle /\ ScorerIdle
    /\ TrendIdle /\ ServiceIdle

\* lines 296-315
ResolveUniverse ==
    /\ pc = "universe"
    /\ \E sp \in Sp500Lists, nd \in Nasdaq100Lists :
         LET common == resolve_universe(sp, nd) IN
         /\ sp500_tickers' = sp
         /\ nasdaq100_tickers' = nd
         /\ common_tickers' = common
         /\ IF common = {}
            THEN pc' = "done" /\ error' = EmptyUniverseError
            ELSE pc' = "regime" /\ error' = error
    /\ stages' = Append(stages, "universe")
    /\ UNCHANGED <<visited, filtered_stocks, score_i, scores, top_4_tickers,
                   allocations, last_fetch>>
    /\ UNCHANGED <<regimeVars, rebalancingVars, scorerVars, trendVars, serviceVars>>

\* lines 317-319
\* variant: the veto is reported but the run goes on
regime_gate_ignored(ok) == "filter"
regime_gate(ok) == IF ok THEN "filter" ELSE "done"

CheckMarketCondition ==
    /\ pc = "regime"
    /\ \E h \in Histories :
         LET ok == check_spy_market_condition(h) IN
         /\ pc' = regime_gate(ok)
         /\ error' = IF ok THEN error ELSE MarketConditionNotMetError
    /\ stages' = Append(stages, "regime")
    /\ UNCHANGED <<sp500_tickers, nasdaq100_tickers, common_tickers, visited,
                   filtered_stocks, score_i, scores, top_4_tickers,
                   allocations, last_fetch>>
    /\ UNCHANGED <<regimeVars, rebalancingVars, scorerVars, trendVars, serviceVars>>

\* variant: an exception of one ticker ends the loop and the run
after_filter_iteration_raising(h) == IF h.failed THEN "done" ELSE "filter"
\* lines 338-339, `except Exception: pass`: the loop goes on
after_filter_iteration(h) == "filter"

\* lines 325-339, one iteration of `for ticker in common_tickers` (a set:
\* any iteration order)
filter_iteration(ticker, h) ==
    /\ visited' = visited \cup {ticker}
    /\ filtered_stocks' = IF passes_sma_filter(h)
                          THEN Append(filtered_stocks, ticker)
                          ELSE filtered_stocks
    /\ last_fetch' = Some(h.failed)
    /\ pc' = after_filter_iteration(h)
    /\ stages' = IF visited = {} THEN Append(stages, "filter") ELSE stages
    /\ UNCHANGED <<sp500_tickers, nasdaq100_tickers, common_tickers,
                   score_i, scores, top_4_tickers, allocations, error>>
    /\ UNCHANGED <<regimeVars, rebalancingVars, scorerVars, serviceVars>>
FilterStock ==
    /\ pc = "filter"
    /\ \E ticker \in common_tickers \ visited, h \in TrendHistories :
         filter_iteration(ticker, h)
    /\ UNCHANGED trendVars

\* lines 341-344
FilterCheck ==
    /\ pc = "filter"
    /\ visited = common_tickers
    /\ IF filtered_stocks = <<>>
       THEN pc' = "done" /\ error' = NoEligibleSymbolsError
       ELSE pc' = "score" /\ error' = error
    /\ last_fetch' = None
    /\ UNCHANGED <<sp500_tickers, nasdaq100_tickers, common_tickers, visited,
                   filtered_stocks, score_i, scores, top_4_tickers,
                   allocations, stages>>
    /\ UNCHANGED <<regimeVars, rebalancingVars, scorerVars, trendVars, serviceVars>>

\* ------------------------------------------- step 4 alone (lines 321-344)
\* the loop entered with a universe of one or two tickers; the frames may
\* hold rows that are not numeric
TrendUniverse == {"AAPL", "MSFT"}
InitTrend ==
    /\ RegimeIdle
    /\ RebalancingIdle
    /\ ScorerIdle
    /\ TrendIdle
    /\ ServiceIdle
    /\ pc = "filter"
    /\ common_tickers \in SUBSET TrendUniverse \ {{}}
    /\ sp500_tickers = common_tickers
    /\ nasdaq100_tickers = common_tickers
    /\ visited = {}
    /\ filtered_stocks = <<>>
    /\ score_i = 1
    /\ scores = <<>>
    /\ top_4_tickers = <<>>
    /\ allocations = <<>>
    /\ error = NoError
    /\ stages = <<"universe", "regime">>
    /\ last_fetch = None

\* one iteration of the loop, the frame kept for inspection
FilterStockObserved ==
    /\ pc = "filter"
    /\ \E ticker \in common_tickers \ visited, h \in Histories :
         /\ filter_iteration(ticker, h)
         /\ trend_data' = Some([ticker |-> ticker, history |-> h])

NextTrend == FilterStockObserved \/ FilterCheck

SpecTrend == InitTrend /\ [][NextTrend]_vars

\* lines 350-353, one iteration of `for ticker in filtered_stocks`
ScoreStock ==
    /\ pc = "score"
    /\ score_i <= Len(filtered_stocks)
    /\ \E score \in ScoreResults :
         scores' = IF score # None
                   THEN dict_put(scores, filtered_stocks[score_i], score[1])
                   ELSE scores
    /\ score_i' = score_i + 1
    /\ stages' = IF score_i = 1 THEN Append(stages, "score") ELSE stages
    /\ UNCHANGED <<pc, sp500_tickers, nasdaq100_tickers, common_tickers,
                   visited, filtered_stocks, top_4_tickers, allocations,
                   error, last_fetch>>
    /\ UNCHANGED <<regimeVars, rebalancingVars, scorerVars, trendVars, serviceVars>>

\* variant: an empty score table is let through to the allocation builder
scores_gate_open(d) == NoError
\* lines 355-356
scores_gate(d) == IF d = <<>> THEN NoScoresError ELSE NoError

\* lines 355-399
BuildPortfolio ==
    /\ pc = "score"
    /\ score_i > Len(filtered_stocks)
    /\ pc' = "done"
    /\ IF scores_gate(scores) # NoError
       THEN /\ error' = scores_gate(scores)
            /\ UNCHANGED <<top_4_tickers, allocations, stages>>
       ELSE /\ top_4_tickers' = take(ranked_tickers(scores), TOP_N)
            /\ allocations' = build_allocations(top_4_tickers')
            /\ stages' = Append(stages, "build")
            /\ error' = error
    /\ UNCHANGED <<sp500_tickers, nasdaq100_tickers, common_tickers, visited,
                   filtered_stocks, score_i, scores, last_fetch>>
    /\ UNCHANGED <<regimeVars, rebalancingVars, scorerVars, trendVars, serviceVars>>

Next ==
    \/ ResolveUniverse
    \/ CheckMarketCondition
    \/ FilterStock
    \/ FilterCheck
    \/ ScoreStock
    \/ BuildPortfolio

Spec == Init /\ [][Next]_vars

\* ---------------------------------------------- check_spy_market_condition
InitRegime ==
    /\ StrategyIdle
    /\ RebalancingIdle
    /\ ScorerIdle
    /\ TrendIdle
    /\ ServiceIdle
    /\ spy_history \in Histories
    /\ market_condition = None

\* strategy.py lines 144-180
CheckSpy ==
    /\ market_condition = None
    /\ market_condition' = Some(check_spy_market_condition(spy_history))
    /\ UNCHANGED <<spy_history, strategyVars, rebalancingVars, scorerVars,
                   trendVars, serviceVars>>

NextRegime == CheckSpy

SpecRegime == InitRegime /\ [][NextRegime]_vars

\* ------------------------------------------------------ RebalancingService
RSymbolOrder == <<"AAA", "BBB", "CCC", "DDD">>
RSymbols == {RSymbolOrder[i] : i \in 1..Len(RSymbolOrder)}
CoreSymbols == {"AAA", "BBB", "CCC"}
Percentages == {ETF_ALLOCATION, ONE - ETF_ALLOCATION}
Capitals == {0, MaxCapital}
StoredAvgPrice == MaxPrice + 1

reversed(s) == [i \in 1..Len(s) |-> s[Len(s) + 1 - i]]

\* current_prices.get(symbol, default)
price_get(prices, symbol, default) ==
    IF symbol \in DOMAIN prices THEN prices[symbol] ELSE default

\* variant: rounding away from zero
int_div_up(x, y) == IF x >= 0 THEN (x + y - 1) \div y ELSE -((y - x - 1) \div y)
\* int(x / y): truncation toward zero
int_div(x, y) == IF x >= 0 THEN x \div y ELSE -((-x) \div y)

\* rebalancing.py lines 63-69 and 166-172
RECURSIVE build_current_holdings(_, _, _)
build_current_holdings(positions, prices, i) ==
    IF i = 0 THEN <<>>
    ELSE LET pos == positions[i]
         IN  dict_put(build_current_holdings(positions, prices, i - 1),
                      pos.symbol,
                      [shares |-> pos.actual_shares,
                       value |-> pos.actual_shares *
                                 price_get(prices, pos.symbol,
                                           pos.actual_avg_price_usd)])

\* variant: a symbol without a price is planned at a price of 1
RECURSIVE build_target_holdings_unpriced(_, _, _, _)
build_target_holdings_unpriced(allocs, prices, capital, i) ==
    IF i = 0 THEN <<>>
    ELSE LET allocation == allocs[i]
             rest == build_target_holdings_unpriced(allocs, prices, capital,
                                                    i - 1)
             target_value == capital * allocation.percentage
             price == price_get(prices, allocation.symbol, 1)
             target_shares == int_div(target_value, ONE * price)
         IN  dict_put(rest, allocation.symbol,
                      [shares |-> target_shares,
                       value |-> target_shares * price])
\* rebalancing.py lines 72-81 and 174-183; percentage is in units of 1/ONE
RECURSIVE build_target_holdings(_, _, _, _)
build_target_holdings(allocs, prices, capital, i) ==
    IF i = 0 THEN <<>>
    ELSE LET allocation == allocs[i]
             rest == build_target_holdings(allocs, prices, capital, i - 1)
             target_value == capital * allocation.percentage
             price == price_get(prices, allocation.symbol, 0)
         IN  IF price > 0
             THEN LET target_shares == int_div(target_value, ONE * price)
                  IN  dict_put(rest, allocation.symbol,
                               [shares |-> target_shares,
                                value |-> target_shares * price])
             ELSE rest

\* target_holdings.get(symbol, {"shares": 0, "value": Decimal("0")})
holding_or_zero(holdings, symbol) ==
    IF symbol \in dict_keys(holdings) THEN dict_lookup(holdings, symbol)
    ELSE [shares |-> 0, value |-> 0]

\* variant: order_index is not advanced after a move
emit_cashflow_same_index(acc, symbol, action, shares, value) ==
    [moves |-> Append(acc.moves,
                      [symbol |-> symbol, action |-> action,
                       suggested_shares |-> shares,
                       suggested_value_usd |-> value,
                       order_index |-> acc.order_index]),
     order_index |-> acc.order_index]
\* moves.append(CashflowMove(...)); order_index += 1
emit_cashflow(acc, symbol, action, shares, value) ==
    [moves |-> Append(acc.moves,
                      [symbol |-> symbol, action |-> action,
                       suggested_shares |-> shares,
                       suggested_value_usd |-> value,
                       order_index |-> acc.order_index]),
     order_index |-> acc.order_index + 1]

\* variant: a position above its target is sold whole
RECURSIVE sell_phase_whole(_, _, _, _, _)
sell_phase_whole(acc, current_holdings, target_holdings, prices, i) ==
    IF i > Len(current_holdings) THEN acc
    ELSE LET symbol == current_holdings[i].key
             current == current_holdings[i].value
             target == holding_or_zero(target_holdings, symbol)
             next ==
               IF symbol \notin dict_keys(target_holdings)
                  \/ target.shares < current.shares
               THEN emit_cashflow(acc, symbol, "SELL", current.shares,
                                  current.value)
               ELSE acc
         IN  sell_phase_whole(next, current_holdings, target_holdings, prices,
                              i + 1)
\* rebalancing.py lines 84-110
RECURSIVE sell_phase(_, _, _, _, _)
sell_phase(acc, current_holdings, target_holdings, prices, i) ==
    IF i > Len(current_holdings) THEN acc
    ELSE LET symbol == current_holdings[i].key
             current == current_holdings[i].value
             next ==
               IF symbol \notin dict_keys(target_holdings)
               THEN emit_cashflow(acc, symbol, "SELL", current.shares,
                                  current.value)
               ELSE LET target == dict_lookup(target_holdings, symbol)
                    IN  IF target.shares < current.shares
                        THEN LET shares_to_sell ==
                                   current.shares - target.shares
                             IN  emit_cashflow(acc, symbol, "SELL",
                                     shares_to_sell,
                                     shares_to_sell *
                                       price_get(prices, symbol, 0))
                        ELSE acc
         IN  sell_phase(next, current_holdings, target_holdings, prices,
                        i + 1)

\* variant: a held symbol already at its target is bought too
RECURSIVE buy_phase_at_target(_, _, _, _, _)
buy_phase_at_target(acc, current_holdings, target_holdings, prices, i) ==
    IF i > Len(target_holdings) THEN acc
    ELSE LET symbol == target_holdings[i].key
             target == target_holdings[i].value
             current == holding_or_zero(current_holdings, symbol)
             shares_to_buy == target.shares - current.shares
             next ==
               IF target.shares >= current.shares
               THEN emit_cashflow(acc, symbol, "BUY", shares_to_buy,
                        shares_to_buy * price_get(prices, symbol, 0))
               ELSE acc
         IN  buy_phase_at_target(next, current_holdings, target_holdings,
                                 prices, i + 1)
\* rebalancing.py lines 113-138
RECURSIVE buy_phase(_, _, _, _, _)
buy_phase(acc, current_holdings, target_holdings, prices, i) ==
    IF i > Len(target_holdings) THEN acc
    ELSE LET symbol == target_holdings[i].key
             target == target_holdings[i].value
             next ==
               IF symbol \notin dict_keys(current_holdings)
               THEN emit_cashflow(acc, symbol, "BUY", target.shares,
                                  target.value)
               ELSE LET current == dict_lookup(current_holdings, symbol)
                    IN  IF target.shares > current.shares
                        THEN LET shares_to_buy ==
                                   target.shares - current.shares
                             IN  emit_cashflow(acc, symbol, "BUY",
                                     shares_to_buy,
                                     shares_to_buy *
                                       price_get(prices, symbol, 0))
                        ELSE acc
         IN  buy_phase(next, current_holdings, target_holdings, prices, i + 1)

\* variant: the buy phase does not look at the current holdings
calculate_cashflow_moves_blind(positions, allocs, prices, capital) ==
    LET current_holdings ==
            build_current_holdings(positions, prices, Len(positions))
        target_holdings ==
            build_target_holdings(allocs, prices, capital, Len(allocs))
        start == [moves |-> <<>>, order_index |-> 1]
        sold == sell_phase(start, current_holdings, target_holdings, prices, 1)
    IN  buy_phase(sold, <<>>, target_holdings, prices, 1).moves
\* rebalancing.py lines 39-140
calculate_cashflow_moves(positions, allocs, prices, capital) ==
    LET current_holdings ==
            build_current_holdings(positions, prices, Len(positions))
        target_holdings ==
            build_target_holdings(allocs, prices, capital, Len(allocs))
        start == [moves |-> <<>>, order_index |-> 1]
        sold == sell_phase(start, current_holdings, target_holdings, prices, 1)
    IN  buy_phase(sold, current_holdings, target_holdings, prices, 1).moves

\* rebalancing.py lines 190-196
RECURSIVE find_excess(_, _, _, _)
find_excess(current_holdings, target_holdings, prices, i) ==
    IF i = 0 THEN <<>>
    ELSE LET symbol == current_holdings[i].key
             current == current_holdings[i].value
             target == holding_or_zero(target_holdings, symbol)
             rest == find_excess(current_holdings, target_holdings, prices,
                                 i - 1)
         IN  IF current.shares > target.shares
             THEN LET diff_shares == current.shares - target.shares
                  IN  Append(rest,
                             [symbol |-> symbol, shares |-> diff_shares,
                              value |-> diff_shares *
                                        price_get(prices, symbol, 0)])
             ELSE rest

\* variant: the deficit carries the whole target instead of the difference
RECURSIVE find_deficit_whole_target(_, _, _)
find_deficit_whole_target(current_holdings, target_holdings, i) ==
    IF i = 0 THEN <<>>
    ELSE LET symbol == target_holdings[i].key
             target == target_holdings[i].value
             current == holding_or_zero(current_holdings, symbol)
             rest == find_deficit_whole_target(current_holdings,
                                               target_holdings, i - 1)
         IN  IF target.shares > current.shares
             THEN Append(rest,
                         [symbol |-> symbol,
                          shares |-> target.shares,
                          value |-> target.value - current.value])
             ELSE rest
\* rebalancing.py lines 199-204
RECURSIVE find_deficit(_, _, _)
find_deficit(current_holdings, target_holdings, i) ==
    IF i = 0 THEN <<>>
    ELSE LET symbol == target_holdings[i].key
             target == target_holdings[i].value
             current == holding_or_zero(current_holdings, symbol)
             rest == find_deficit(current_holdings, target_holdings, i - 1)
         IN  IF target.shares > current.shares
             THEN Append(rest,
                         [symbol |-> symbol,
                          shares |-> target.shares - current.shares,
                          value |-> target.value - current.value])
             ELSE rest

min(a, b) == IF a < b THEN a ELSE b

\* variant: order_index is not advanced after a move
emit_swap_same_index(acc, from_s, to_s, shares_from, shares_to, value) ==
    [moves |-> Append(acc.moves,
                      [from_symbol |-> from_s, to_symbol |-> to_s,
                       swap_shares_from |-> shares_from,
                       swap_shares_to |-> shares_to,
                       swap_value_usd |-> value,
                       order_index |-> acc.order_index]),
     order_index |-> acc.order_index,
     deficit |-> acc.deficit]
\* moves.append(SwapMove(...)); order_index += 1
emit_swap(acc, from_symbol, to_symbol, shares_from, shares_to, value) ==
    [moves |-> Append(acc.moves,
                      [from_symbol |-> from_symbol, to_symbol |-> to_symbol,
                       swap_shares_from |-> shares_from,
                       swap_shares_to |-> shares_to,
                       swap_value_usd |-> value,
                       order_index |-> acc.order_index]),
     order_index |-> acc.order_index + 1,
     deficit |-> acc.deficit]

\* variant: the paired deficit entry is not taken off the list
RECURSIVE match_excess_keeping(_, _, _)
match_excess_keeping(acc, excess, i) ==
    IF i > Len(excess) THEN acc
    ELSE LET e == excess[i]
             next ==
               IF acc.deficit # <<>>
               THEN LET d == Head(acc.deficit)
                    IN  emit_swap(acc, Some(e.symbol), Some(d.symbol),
                                  Some(e.shares), Some(d.shares),
                                  min(e.value, d.value))
               ELSE emit_swap(acc, Some(e.symbol), None, Some(e.shares),
                              None, e.value)
         IN  match_excess_keeping(next, excess, i + 1)
\* rebalancing.py lines 211-235
RECURSIVE match_excess(_, _, _)
match_excess(acc, excess, i) ==
    IF i > Len(excess) THEN acc
    ELSE LET e == excess[i]
             next ==
               IF acc.deficit # <<>>
               THEN LET d == Head(acc.deficit)
                        popped == [acc EXCEPT !.deficit = Tail(acc.deficit)]
                    IN  emit_swap(popped, Some(e.symbol), Some(d.symbol),
                                  Some(e.shares), Some(d.shares),
                                  min(e.value, d.value))
               ELSE emit_swap(acc, Some(e.symbol), None, Some(e.shares),
                              None, e.value)
         IN  match_excess(next, excess, i + 1)

\* variant: the remaining deficit is emitted with the symbol on the sell side
RECURSIVE pure_buys_as_from(_, _, _)
pure_buys_as_from(acc, deficit, i) ==
    IF i > Len(deficit) THEN acc
    ELSE LET d == deficit[i]
         IN  pure_buys_as_from(emit_swap(acc, Some(d.symbol), None, None,
                                         Some(d.shares), d.value),
                               deficit, i + 1)
\* rebalancing.py lines 238-248
RECURSIVE pure_buys(_, _, _)
pure_buys(acc, deficit, i) ==
    IF i > Len(deficit) THEN acc
    ELSE LET d == deficit[i]
         IN  pure_buys(emit_swap(acc, None, Some(d.symbol), None,
                                 Some(d.shares), d.value),
                       deficit, i + 1)

\* variant: the two lists are matched in insertion order
calculate_swap_moves_unsorted(positions, allocs, prices, capital) ==
    LET current_holdings ==
            build_current_holdings(positions, prices, Len(positions))
        target_holdings ==
            build_target_holdings(allocs, prices, capital, Len(allocs))
        excess == find_excess(current_holdings, target_holdings, prices,
                              Len(current_holdings))
        deficit == find_deficit(current_holdings, target_holdings,
                                Len(target_holdings))
        start == [moves |-> <<>>, order_index |-> 1, deficit |-> deficit]
        matched == match_excess(start, excess, 1)
    IN  pure_buys(matched, matched.deficit, 1).moves
\* rebalancing.py lines 142-250
calculate_swap_moves(positions, allocs, prices, capital) ==
    LET current_holdings ==
            build_current_holdings(positions, prices, Len(positions))
        target_holdings ==
            build_target_holdings(allocs, prices, capital, Len(allocs))
        excess == sorted_desc(find_excess(current_holdings, target_holdings,
                                          prices, Len(current_holdings)))
        deficit == sorted_desc(find_deficit(current_holdings, target_holdings,
                                            Len(target_holdings)))
        start == [moves |-> <<>>, order_index |-> 1, deficit |-> deficit]
        matched == match_excess(start, excess, 1)
    IN  pure_buys(matched, matched.deficit, 1).moves

\* the arguments of one planning call
positions_of(held) ==
    LET present == SelectSeq(RSymbolOrder, LAMBDA s : s \in DOMAIN held)
    IN  [i \in 1..Len(present) |->
            [symbol |-> present[i], actual_shares |-> held[present[i]],
             actual_avg_price_usd |-> StoredAvgPrice]]
allocations_of(pct, rev) ==
    LET present == SelectSeq(RSymbolOrder, LAMBDA s : s \in DOMAIN pct)
        allocs == [i \in 1..Len(present) |->
                      [symbol |-> present[i], percentage |-> pct[present[i]]]]
    IN  IF rev THEN reversed(allocs) ELSE allocs

\* any positions, allocations and prices over three symbols
CoreInputs ==
    /\ \E H \in SUBSET CoreSymbols, T \in SUBSET CoreSymbols,
          rev \in BOOLEAN :
         \E held \in [H -> 0..MaxShares], pct \in [T -> Percentages] :
           /\ previous_positions = positions_of(held)
           /\ target_allocations = allocations_of(pct, rev)
    /\ \E P \in SUBSET CoreSymbols : current_prices \in [P -> 1..MaxPrice]
    /\ total_capital \in Capitals
\* two symbols held and two other symbols targeted, all four priced
RotationInputs ==
    /\ \E held \in [{"AAA", "BBB"} -> 1..MaxShares],
          pct \in [{"CCC", "DDD"} -> Percentages], rev \in BOOLEAN :
           /\ previous_positions = positions_of(held)
           /\ target_allocations = allocations_of(pct, rev)
    /\ current_prices \in [RSymbols -> 1..MaxPrice]
    /\ total_capital = MaxCapital
\* 100 shares held, target 60 shares (30% of 2000 at price 10)
PartialSellInputs ==
    /\ previous_positions =
          <<[symbol |-> "AAA", actual_shares |-> 100,
             actual_avg_price_usd |-> StoredAvgPrice]>>
    /\ target_allocations =
          <<[symbol |-> "AAA", percentage |-> ETF_ALLOCATION]>>
    /\ current_prices = [s \in {"AAA"} |-> 10]
    /\ total_capital = 2000
\* 50 shares of AAA held and 30 shares of BBB targeted, both worth 500 USD
\* (money in thirds of a dollar: prices 30 and 50, values 1500)
EqualSwapInputs ==
    /\ previous_positions =
          <<[symbol |-> "AAA", actual_shares |-> 50,
             actual_avg_price_usd |-> StoredAvgPrice]>>
    /\ target_allocations =
          <<[symbol |-> "BBB", percentage |-> ETF_ALLOCATION]>>
    /\ current_prices = [s \in {"AAA", "BBB"} |->
                            IF s = "AAA" THEN 30 ELSE 50]
    /\ total_capital = 5000

InitRebalancing ==
    /\ StrategyIdle
    /\ RegimeIdle
    /\ ScorerIdle
    /\ TrendIdle
    /\ ServiceIdle
    /\ rpc = "cashflow"
    /\ CoreInputs \/ RotationInputs \/ PartialSellInputs \/ EqualSwapInputs
    /\ cashflow_moves = <<>>
    /\ swap_moves = <<>>

\* run_generator.py lines 116-121
CalculateCashflowMoves ==
    /\ rpc = "cashflow"
    /\ cashflow_moves' = calculate_cashflow_moves(previous_positions,
                             target_allocations, current_prices, total_capital)
    /\ rpc' = "swap"
    /\ UNCHANGED <<previous_positions, target_allocations, current_prices,
                   total_capital, swap_moves, strategyVars, regimeVars,
                   scorerVars, trendVars, serviceVars>>

\* run_generator.py lines 135-140
CalculateSwapMoves ==
    /\ rpc = "swap"
    /\ swap_moves' = calculate_swap_moves(previous_positions,
                         target_allocations, current_prices, total_capital)
    /\ rpc' = "done"
    /\ UNCHANGED <<previous_positions, target_allocations, current_prices,
                   total_capital, cashflow_moves, strategyVars, regimeVars,
                   scorerVars, trendVars, serviceVars>>

NextRebalancing == CalculateCashflowMoves \/ CalculateSwapMoves

SpecRebalancing == InitRebalancing /\ [][NextRebalancing]_vars

\* ------------------------------------------------------------ properties
RECURSIVE sum_percentages(_)
sum_percentages(allocs) ==
    IF allocs = <<>> THEN 0
    ELSE Head(allocs).percentage + sum_percentages(Tail(allocs))

Returned == pc = "done" /\ error = NoError

\* C1: every allocation list returned by get_allocations holds the anchor
\* and K selected symbols, K at most 4, and its percentages sum to exactly
\* 1.0000 (10000 units of 0.0001), whatever the floor rounding of the
\* per-symbol weights.  (No list is returned for K = 0, see C2.)
AllocationsSumToOne ==
    Returned =>
        /\ Len(allocations) = Len(top_4_tickers) + 1
        /\ Len(top_4_tickers) \in 0..TOP_N
        /\ sum_percentages(allocations) = ONE
\* a returned list for K = 3, where 0.70/3 is rounded down
AllocationsSumToOneWitness ==
    /\ Returned
    /\ Len(top_4_tickers) = 3
    /\ allocations[2].percentage * 3 < ONE - ETF_ALLOCATION

ScorerFoundNothing ==
    /\ pc = "done"
    /\ filtered_stocks # <<>>
    /\ score_i > Len(filtered_stocks)
    /\ scores = <<>>

\* C2 as stated: when no symbol can be scored (K = 0) the run completes
\* without error and returns exactly the anchor at weight 0.30.
NoScoreReturnsAnchorOnly ==
    ScorerFoundNothing =>
        /\ error = NoError
        /\ allocations = <<[symbol |-> ETF_SYMBOL,
                            percentage |-> ETF_ALLOCATION]>>
\* C2 amended: when no symbol can be scored (K = 0) the run stops with the
\* no-scores error and returns no allocation list; a returned list always
\* holds the anchor and at least one selected symbol.
NoScoreStopsRun ==
    /\ ScorerFoundNothing =>
          error = NoScoresError /\ allocations = <<>> /\ top_4_tickers = <<>>
    /\ Returned => Len(allocations) >= 2 /\ scores # <<>>
NoScoreStopsRunWitness ==
    ScorerFoundNothing /\ Len(filtered_stocks) >= 2

StageOrder == <<"universe", "regime", "filter", "score", "build">>
IsPrefix(s, t) == Len(s) <= Len(t) /\ s = SubSeq(t, 1, Len(s))

\* C8: the stages run in the order universe, regime, trend filter, scorer,
\* allocation builder; when the regime filter returns false the run stops
\* with the market-condition error before any ticker is trend-filtered or
\* scored, and no allocation list is returned.
RegimeVetoStopsRun ==
    /\ IsPrefix(stages, StageOrder)
    /\ error = MarketConditionNotMetError =>
          /\ pc = "done"
          /\ stages = <<"universe", "regime">>
          /\ visited = {} /\ filtered_stocks = <<>>
          /\ scores = <<>> /\ score_i = 1
          /\ allocations = <<>>
RegimeVetoStopsRunWitness ==
    /\ error = MarketConditionNotMetError
    /\ pc = "done"
    /\ Cardinality(common_tickers) >= 2

ExpectedUniverse ==
    {s \in Symbols : s \in sp500_tickers /\ s \in nasdaq100_tickers
                     /\ s # "GOOGL"}

\* C10: the universe is the intersection of the two constituent lists with
\* GOOGL removed; the run fails with the empty-universe error exactly when
\* that set is empty (also when the intersection held only GOOGL), and it
\* does so before the regime filter is evaluated.
UniverseIsIntersectionWithoutAlias ==
    pc # "universe" =>
        /\ common_tickers = ExpectedUniverse
        /\ error = EmptyUniverseError <=> ExpectedUniverse = {}
        /\ error = EmptyUniverseError =>
              pc = "done" /\ stages = <<"universe">>
        /\ Len(stages) >= 2 => ExpectedUniverse # {}
UniverseIsIntersectionWithoutAliasWitness ==
    /\ pc = "done"
    /\ error = EmptyUniverseError
    /\ sp500_tickers \cap nasdaq100_tickers = {"GOOGL"}

\* --------------------------------------------- properties of the planner
CashflowReturned == rpc \in {"swap", "done"}
SwapReturned == rpc = "done"
MoveIndexes(moves) == 1..Len(moves)

\* C3: in the list returned by calculate_cashflow_moves every SELL has a
\* smaller order_index than every BUY, and the order_index values are
\* exactly 1..N, without gap or repeat.
CashflowSellsFirstDense ==
    CashflowReturned =>
        /\ \A i, j \in MoveIndexes(cashflow_moves) :
              cashflow_moves[i].action = "SELL"
              /\ cashflow_moves[j].action = "BUY"
              => cashflow_moves[i].order_index < cashflow_moves[j].order_index
        /\ {cashflow_moves[i].order_index : i \in MoveIndexes(cashflow_moves)}
              = 1..Len(cashflow_moves)
        /\ \A i, j \in MoveIndexes(cashflow_moves) :
              i # j =>
              cashflow_moves[i].order_index # cashflow_moves[j].order_index
CashflowSellsFirstDenseWitness ==
    /\ CashflowReturned
    /\ Len(cashflow_moves) = 3
    /\ cashflow_moves[2].action = "SELL"
    /\ cashflow_moves[3].action = "BUY"

RECURSIVE cashflow_net(_, _)
cashflow_net(moves, symbol) ==
    IF moves = <<>> THEN 0
    ELSE LET m == Head(moves)
         IN  (IF m.symbol # symbol THEN 0
              ELSE IF m.action = "BUY" THEN m.suggested_shares
              ELSE 0 - m.suggested_shares)
             + cashflow_net(Tail(moves), symbol)
RECURSIVE swap_net(_, _)
swap_net(moves, symbol) ==
    IF moves = <<>> THEN 0
    ELSE LET m == Head(moves)
         IN  (IF m.to_symbol = Some(symbol) THEN m.swap_shares_to[1] ELSE 0)
             - (IF m.from_symbol = Some(symbol) THEN m.swap_shares_from[1]
                ELSE 0)
             + swap_net(Tail(moves), symbol)

\* C4: for the same arguments, the net share change per symbol of the swap
\* plan (shares_to received minus shares_from given) equals that of the
\* cashflow plan (BUY shares minus SELL shares).
PlansAgreeOnNetShares ==
    SwapReturned =>
        \A s \in RSymbols :
            swap_net(swap_moves, s) = cashflow_net(cashflow_moves, s)
PlansAgreeOnNetSharesWitness ==
    /\ SwapReturned
    /\ Len(cashflow_moves) = 3
    /\ Len(swap_moves) = 2
    /\ swap_moves[1].from_symbol # None /\ swap_moves[1].to_symbol # None
    /\ \A s \in CoreSymbols : cashflow_net(cashflow_moves, s) # 0

\* C5 as stated: every CashflowMove has a share count strictly greater
\* than 0 and a value greater than or equal to 0.
CashflowSharesPositive ==
    CashflowReturned =>
        \A i \in MoveIndexes(cashflow_moves) :
            /\ cashflow_moves[i].suggested_shares > 0
            /\ cashflow_moves[i].suggested_value_usd >= 0

\* C6: every SwapMove has from_symbol or to_symbol present; a present
\* from_symbol comes with swap_shares_from and a present to_symbol with
\* swap_shares_to.
SwapMoveHasASide ==
    SwapReturned =>
        \A i \in MoveIndexes(swap_moves) :
            LET m == swap_moves[i] IN
            /\ m.from_symbol # None \/ m.to_symbol # None
            /\ m.from_symbol # None => m.swap_shares_from # None
            /\ m.to_symbol # None => m.swap_shares_to # None
SwapMoveHasASideWitness ==
    /\ SwapReturned
    /\ Len(swap_moves) = 2
    /\ swap_moves[1].from_symbol # None /\ swap_moves[1].to_symbol # None
    /\ swap_moves[2].from_symbol = None /\ swap_moves[2].to_symbol # None

\* C7: in the list returned by calculate_swap_moves the i-th move has
\* order_index i, across paired moves, pure sells and pure buys.
SwapOrderIndexDense ==
    SwapReturned =>
        \A i \in MoveIndexes(swap_moves) : swap_moves[i].order_index = i
SwapOrderIndexDenseWitness ==
    /\ SwapReturned
    /\ Len(swap_moves) = 2
    /\ swap_moves[1].from_symbol # None /\ swap_moves[1].to_symbol # None
    /\ swap_moves[2].from_symbol # None /\ swap_moves[2].to_symbol = None

\* ------------------------------------- properties of the regime filter
ValidRows(h) == {i \in DOMAIN h.rows : h.rows[i] # NaN}
EnoughCloses(h) == ~h.failed /\ Cardinality(ValidRows(h)) >= SMA_WINDOW
LatestClose(h) ==
    LET valid == ValidRows(h)
    IN  h.rows[CHOOSE i \in valid : \A j \in valid : j <= i]
\* the sum of the last SMA_WINDOW valid closes
TrailingTotal(h) ==
    LET valid == ValidRows(h)
        first == CHOOSE i \in valid :
                    Cardinality({j \in valid : j >= i}) = SMA_WINDOW
    IN  SumRange([i \in DOMAIN h.rows |->
                     IF i >= first /\ h.rows[i] # NaN THEN h.rows[i] ELSE 0],
                 1, Len(h.rows))

\* C9: check_spy_market_condition returns true exactly when at least 220
\* valid closes are available and the latest close is strictly greater than
\* the mean of the trailing 220 valid closes; otherwise (equal to the
\* average, fewer than 220 valid sessions, failed fetch) it returns false.
SpyConditionIsStrictSma ==
    market_condition # None =>
        /\ market_condition \in {Some(TRUE), Some(FALSE)}
        /\ market_condition[1] <=>
              /\ EnoughCloses(spy_history)
              /\ LatestClose(spy_history) * SMA_WINDOW
                    > TrailingTotal(spy_history)
SpyConditionIsStrictSmaWitness ==
    /\ market_condition = Some(FALSE)
    /\ EnoughCloses(spy_history)
    /\ LatestClose(spy_history) * SMA_WINDOW = TrailingTotal(spy_history)

\* ------------------------------------------ calculate_momentum_vola alone
\* month-end rows with 0 <= Low <= Close <= High
MonthlyRow(high, low, close) ==
    [High |-> Fin(high, 1), Low |-> Fin(low, 1), Close |-> Fin(close, 1)]
MonthlyRows ==
    {MonthlyRow(t[1], t[2], t[3]) :
        t \in {u \in (0..MaxMonthly) \X (0..MaxMonthly) \X (0..MaxMonthly) :
                  u[2] <= u[3] /\ u[3] <= u[1]}}
\* n months: a first row, flat rows at `base`, a last row; the High of row
\* infAt (if any) is +inf, as pd.to_numeric leaves it
MonthlyFrame(n, first, base, last, infAt) ==
    [i \in 1..n |->
        LET row == IF i = 1 THEN first
                   ELSE IF i = n THEN last
                   ELSE MonthlyRow(base, base, base)
        IN  IF i = infAt THEN [row EXCEPT !.High = INF] ELSE row]
MonthLens == {MIN_MONTHS - 1, MIN_MONTHS, MIN_MONTHS + 1}
DailyCounts == {MIN_DAILY_ROWS - 1, MIN_DAILY_ROWS}
ScoreFetches ==
    {[failed |-> TRUE]} \cup
    {[failed |-> FALSE, daily_rows |-> d, clean_rows |-> c,
      data_mo |-> MonthlyFrame(n, first, base, last, infAt)] :
        d \in DailyCounts, c \in DailyCounts, n \in MonthLens,
        first \in MonthlyRows, base \in 0..MaxMonthly, last \in MonthlyRows,
        infAt \in {0, 1}}

InitScorer ==
    /\ StrategyIdle
    /\ RegimeIdle
    /\ RebalancingIdle
    /\ TrendIdle
    /\ ServiceIdle
    /\ spc = "call"
    /\ score_fetch \in {f \in ScoreFetches :
                          f.failed \/ f.clean_rows <= f.daily_rows}
    /\ score_result = None

CalculateMomentumVola ==
    /\ spc = "call"
    /\ score_result' = calculate_momentum_vola(score_fetch)
    /\ spc' = "done"
    /\ UNCHANGED <<score_fetch, strategyVars, regimeVars, rebalancingVars,
                   trendVars, serviceVars>>

NextScorer == CalculateMomentumVola

SpecScorer == InitScorer /\ [][NextScorer]_vars

\* ---------------------------------------- properties of the run, continued
\* C11: a failure of one ticker in the trend filter or in the scorer drops
\* that ticker only: the loop goes on, the tickers already retained or
\* scored are kept, and the run aborts in these two stages only when the
\* list of retained tickers, or the table of scores, is empty.
FailureDropsOnlyThatSymbol ==
    [][/\ visited' # visited =>
            LET ticker == CHOOSE t \in visited' \ visited : TRUE IN
            /\ pc' = "filter" /\ error' = error
            /\ filtered_stocks' \in
                  {filtered_stocks, Append(filtered_stocks, ticker)}
            /\ last_fetch'[1] =>
                  filtered_stocks' = filtered_stocks
       /\ score_i' # score_i =>
            /\ pc' = "score" /\ error' = error
            /\ \/ scores' = scores
               \/ /\ Len(scores') = Len(scores) + 1
                  /\ SubSeq(scores', 1, Len(scores)) = scores
                  /\ scores'[Len(scores')].key = filtered_stocks[score_i]
       /\ pc = "filter" /\ pc' = "done" =>
            /\ filtered_stocks = <<>> /\ visited = common_tickers
            /\ error' = NoEligibleSymbolsError
       /\ pc = "filter" /\ pc' = "score" => filtered_stocks # <<>>
       /\ pc = "score" /\ pc' = "done" =>
            IF scores = <<>> THEN error' = NoScoresError
            ELSE error' = NoError /\ allocations' # <<>>
      ]_vars
\* a fetch failed in the middle of the trend filter, after a ticker was
\* retained and before the last ticker
FailureDropsOnlyThatSymbolWitness ==
    /\ pc = "filter"
    /\ last_fetch # None
    /\ last_fetch[1]
    /\ filtered_stocks # <<>>
    /\ visited # common_tickers

\* C12: calculate_momentum_vola returns None whenever the symbol has fewer
\* than 8 monthly observations, or its volatility is zero, NaN or infinite,
\* or its momentum is NaN.
UnusableDataGivesNoScore ==
    spc = "done" /\ ~score_fetch.failed =>
        LET data_mo == score_fetch.data_mo
            volatility == volatility_of(data_mo)
        IN  \/ Len(data_mo) < MIN_MONTHS
            \/ is_zero(volatility)
            \/ volatility.k # "fin"
            \/ isna(momentum_of(data_mo))
            => score_result = None

\* C13: the selected symbols are the first min(4, number of scored symbols)
\* of the scored symbols in descending order of score, symbols of equal
\* score in the order of the iteration over the universe; with fewer than 4
\* scored symbols (but at least one) the run returns without error.
IterationIndex(ticker) ==
    CHOOSE i \in 1..Len(filtered_stocks) : filtered_stocks[i] = ticker
Outranks(a, b) ==
    \/ dict_lookup(scores, a) > dict_lookup(scores, b)
    \/ /\ dict_lookup(scores, a) = dict_lookup(scores, b)
       /\ IterationIndex(a) < IterationIndex(b)
PositionsOf(symbol) ==
    {i \in 1..Len(previous_positions) : previous_positions[i].symbol = symbol}
IsHeld(symbol) == PositionsOf(symbol) # {}
HeldShares(symbol) ==
    IF IsHeld(symbol)
    THEN previous_positions[CHOOSE i \in PositionsOf(symbol) : TRUE]
            .actual_shares
    ELSE 0
AllocationsOf(symbol) ==
    {i \in 1..Len(target_allocations) : target_allocations[i].symbol = symbol}
IsPriced(symbol) ==
    symbol \in DOMAIN current_prices /\ current_prices[symbol] > 0
HasTarget(symbol) == AllocationsOf(symbol) # {} /\ IsPriced(symbol)
TargetShares(symbol) ==
    IF HasTarget(symbol)
    THEN (total_capital *
          target_allocations[CHOOSE i \in AllocationsOf(symbol) : TRUE]
             .percentage) \div (ONE * current_prices[symbol])
    ELSE 0
CashflowMovesOf(symbol, action) ==
    {i \in MoveIndexes(cashflow_moves) :
        /\ cashflow_moves[i].symbol = symbol
        /\ cashflow_moves[i].action = action}
SwapMovesFrom(symbol) ==
    {i \in MoveIndexes(swap_moves) : swap_moves[i].from_symbol = Some(symbol)}
SwapMovesTo(symbol) ==
    {i \in MoveIndexes(swap_moves) : swap_moves[i].to_symbol = Some(symbol)}

\* C15: a held symbol that is absent from the price map is valued at its
\* stored average price by both planners: its sale is worth shares times
\* the stored average price in the cashflow plan and in the swap plan.
MissingPriceUsesStoredAverage ==
    SwapReturned =>
        \A i \in 1..Len(previous_positions) :
            LET pos == previous_positions[i]
                worth == pos.actual_shares * pos.actual_avg_price_usd
            IN  pos.symbol \notin DOMAIN current_prices =>
                  /\ \A m \in CashflowMovesOf(pos.symbol, "SELL") :
                        cashflow_moves[m].suggested_value_usd = worth
                  /\ \A m \in SwapMovesFrom(pos.symbol) :
                        swap_moves[m].to_symbol = None =>
                            swap_moves[m].swap_value_usd = worth

\* C16: an allocation whose symbol has no positive price gives no target
\* entry: no plan buys the symbol, and a held position of it is sold whole
\* by both plans (one SELL of all its shares; the swap plan has no move for
\* a position of 0 shares).  With an empty price map both plans are made of
\* the full sells of the previous positions only.
FullSellOf(symbol) ==
    /\ \E m \in MoveIndexes(cashflow_moves) :
          /\ CashflowMovesOf(symbol, "SELL") = {m}
          /\ cashflow_moves[m].suggested_shares = HeldShares(symbol)
    /\ IF HeldShares(symbol) > 0
       THEN \E m \in MoveIndexes(swap_moves) :
               /\ SwapMovesFrom(symbol) = {m}
               /\ swap_moves[m].swap_shares_from = Some(HeldShares(symbol))
       ELSE SwapMovesFrom(symbol) = {}
UnpricedTargetIsNeverBought ==
    SwapReturned =>
        /\ \A symbol \in RSymbols :
              AllocationsOf(symbol) # {} /\ ~IsPriced(symbol) =>
                  /\ CashflowMovesOf(symbol, "BUY") = {}
                  /\ SwapMovesTo(symbol) = {}
                  /\ IsHeld(symbol) => FullSellOf(symbol)
        /\ DOMAIN current_prices = {} =>
              /\ \A symbol \in RSymbols : IsHeld(symbol) => FullSellOf(symbol)
              /\ \A m \in MoveIndexes(cashflow_moves) :
                    /\ cashflow_moves[m].action = "SELL"
                    /\ IsHeld(cashflow_moves[m].symbol)
              /\ \A m \in MoveIndexes(swap_moves) :
                    /\ swap_moves[m].to_symbol = None
                    /\ swap_moves[m].from_symbol # None
                    /\ IsHeld(swap_moves[m].from_symbol[1])
\* a held symbol with an allocation and no price, next to a priced one that
\* is bought
UnpricedTargetIsNeverBoughtWitness ==
    /\ SwapReturned
    /\ \E symbol \in RSymbols :
          /\ AllocationsOf(symbol) # {} /\ ~IsPriced(symbol)
          /\ HeldShares(symbol) > 0
    /\ \E m \in MoveIndexes(cashflow_moves) : cashflow_moves[m].action = "BUY"

\* C17: the swap plan has max(number of excess symbols, number of deficit
\* symbols) moves, and never more moves than the cashflow plan.
ExcessSymbols == {s \in RSymbols : HeldShares(s) > TargetShares(s)}
DeficitSymbols == {s \in RSymbols : TargetShares(s) > HeldShares(s)}
SwapPlanIsNoLonger ==
    SwapReturned =>
        LET E == Cardinality(ExcessSymbols)
            D == Cardinality(DeficitSymbols)
        IN  /\ Len(swap_moves) = (IF E > D THEN E ELSE D)
            /\ Len(swap_moves) <= Len(cashflow_moves)
\* two excess symbols and two deficit symbols: two swaps for four cashflow
\* moves
SwapPlanIsNoLongerWitness ==
    /\ SwapReturned
    /\ Cardinality(ExcessSymbols) = 2
    /\ Cardinality(DeficitSymbols) = 2
    /\ Len(swap_moves) = 2
    /\ Len(cashflow_moves) = 4

\* C18: the returned list starts with the anchor at exactly 0.30; with K
\* selected symbols (K >= 1), in ranking order, each of the first K-1 gets
\* 0.70/K rounded down to 4 decimals and the last gets 1 - 0.30 - (what the
\* others got); K = 2 gives 0.3500 and 0.3500.
WeightsFollowFloorRule ==
    Returned =>
        LET K == Len(top_4_tickers)
            floored == (ONE - ETF_ALLOCATION) \div K
        IN  /\ K >= 1
            /\ Len(allocations) = K + 1
            /\ allocations[1] =
                  [symbol |-> ETF_SYMBOL, percentage |-> ETF_ALLOCATION]
            /\ \A i \in 1..K : allocations[i + 1].symbol = top_4_tickers[i]
            /\ \A i \in 1..(K - 1) : allocations[i + 1].percentage = floored
            /\ allocations[K + 1].percentage =
                  ONE - ETF_ALLOCATION - (K - 1) * floored
            /\ K = 2 => /\ allocations[2].percentage = 3500
                        /\ allocations[3].percentage = 3500
\* two symbols selected, 0.3500 each
WeightsFollowFloorRuleWitness ==
    /\ Returned
    /\ Len(top_4_tickers) = 2
    /\ allocations[2].percentage = 3500
    /\ allocations[3].percentage = 3500

\* C19: the cashflow plan holds, for every held symbol, exactly one SELL of
\* the whole position when the symbol has no target entry, exactly one SELL
\* of current - target shares worth that many shares at the current price
\* when it holds more than the target, and no SELL otherwise; for every
\* target symbol exactly one BUY of the whole target when it is not held,
\* exactly one BUY of target - current shares when the target is larger,
\* and no BUY otherwise.  100 shares held against a target of 60 at a
\* price of 10 give one SELL of 40 shares worth 400 at order_index 1.
OneMove(moves, action, shares) ==
    \E m \in MoveIndexes(cashflow_moves) :
        /\ moves = {m}
        /\ cashflow_moves[m].action = action
        /\ cashflow_moves[m].suggested_shares = shares
CashflowPlanBySymbol ==
    CashflowReturned =>
        /\ \A s \in RSymbols :
              LET sells == CashflowMovesOf(s, "SELL")
                  buys == CashflowMovesOf(s, "BUY")
                  current == HeldShares(s)
                  target == TargetShares(s)
              IN  /\ IF IsHeld(s) /\ ~HasTarget(s)
                     THEN OneMove(sells, "SELL", current)
                     ELSE IF IsHeld(s) /\ current > target
                     THEN /\ OneMove(sells, "SELL", current - target)
                          /\ \A m \in sells :
                                cashflow_moves[m].suggested_value_usd =
                                    (current - target) * current_prices[s]
                     ELSE sells = {}
                  /\ IF HasTarget(s) /\ ~IsHeld(s)
                     THEN OneMove(buys, "BUY", target)
                     ELSE IF HasTarget(s) /\ target > current
                     THEN OneMove(buys, "BUY", target - current)
                     ELSE buys = {}
        /\ PartialSellInputs =>
              cashflow_moves =
                  <<[symbol |-> "AAA", action |-> "SELL",
                     suggested_shares |-> 40, suggested_value_usd |-> 400,
                     order_index |-> 1]>>
\* the plan of the example: 100 shares held, target 60, price 10
CashflowPlanBySymbolWitness ==
    /\ CashflowReturned
    /\ PartialSellInputs
    /\ Len(cashflow_moves) = 1

\* C20: with the excess and the deficit entries each in descending order of
\* value (as the planner computes it: shares at the price of the price map),
\* the k-th move, for k up to min(#excess, #deficit), pairs the k-th
\* largest excess with the k-th largest deficit and is worth the smaller of
\* the two values; the entries left over follow the paired moves as pure
\* sells or pure buys.  An excess of 50 shares of AAA and a deficit of 30
\* shares of BBB of equal value give the single move AAA -> BBB.
ExcessValue(s) ==
    (HeldShares(s) - TargetShares(s)) *
    (IF s \in DOMAIN current_prices THEN current_prices[s] ELSE 0)
DeficitValue(s) == (TargetShares(s) - HeldShares(s)) * current_prices[s]
\* x is the k-th largest of the set under the valuation, ties in any order
IsKthLargest(x, k, set, Value(_)) ==
    /\ x \in set
    /\ Cardinality({y \in set : Value(y) > Value(x)}) < k
    /\ Cardinality({y \in set : Value(y) >= Value(x)}) >= k
SwapPairsLargestFirst ==
    SwapReturned =>
        LET E == Cardinality(ExcessSymbols)
            D == Cardinality(DeficitSymbols)
            paired == IF E < D THEN E ELSE D
        IN  /\ \A k \in MoveIndexes(swap_moves) :
                  LET move == swap_moves[k] IN
                  /\ k <= E =>
                        /\ move.from_symbol # None
                        /\ IsKthLargest(move.from_symbol[1], k, ExcessSymbols,
                                        ExcessValue)
                  /\ k <= D =>
                        /\ move.to_symbol # None
                        /\ IsKthLargest(move.to_symbol[1], k, DeficitSymbols,
                                        DeficitValue)
                  /\ k <= paired =>
                        move.swap_value_usd =
                            min(ExcessValue(move.from_symbol[1]),
                                DeficitValue(move.to_symbol[1]))
                  /\ k > E => move.from_symbol = None
                  /\ k > D => move.to_symbol = None
            /\ \A s \in ExcessSymbols : Cardinality(SwapMovesFrom(s)) = 1
            /\ \A s \in DeficitSymbols : Cardinality(SwapMovesTo(s)) = 1
            /\ EqualSwapInputs =>
                  swap_moves =
                      <<[from_symbol |-> Some("AAA"), to_symbol |-> Some("BBB"),
                         swap_shares_from |-> Some(50),
                         swap_shares_to |-> Some(30),
                         swap_value_usd |-> 1500, order_index |-> 1]>>
\* two paired moves whose order is not the order of the positions: the
\* larger excess BBB goes first
SwapPairsLargestFirstWitness ==
    /\ SwapReturned
    /\ Len(swap_moves) = 2
    /\ swap_moves[1].from_symbol = Some("BBB")
    /\ swap_moves[1].to_symbol # None
    /\ swap_moves[2].from_symbol = Some("AAA")
    /\ swap_moves[2].to_symbol # None
    /\ swap_moves[1].swap_value_usd > swap_moves[2].swap_value_usd

\* ----------------------------------------- properties of the trend filter
\* C21: the trend filter keeps a ticker exactly when its fetch succeeds, it
\* has at least 220 valid closes and its latest close is strictly greater
\* than the mean of its trailing 220 closes; the run fails with the
\* no-eligible-symbols error exactly when the loop ends with no ticker kept.
TrendFilterKeepsStrictlyAbove ==
    /\ trend_data # None =>
          LET ticker == trend_data[1].ticker
              h == trend_data[1].history
          IN  (\E i \in 1..Len(filtered_stocks) : filtered_stocks[i] = ticker)
              <=> /\ EnoughCloses(h)
                  /\ LatestClose(h) * SMA_WINDOW > TrailingTotal(h)
    /\ pc # "filter" =>
          /\ visited = common_tickers
          /\ error = NoEligibleSymbolsError <=> filtered_stocks = <<>>
          /\ error = NoError <=> pc = "score"
    /\ pc = "filter" => error = NoError
\* a frame with a non-numeric row and exactly 220 valid closes is kept,
\* after another ticker was dropped
TrendFilterKeepsStrictlyAboveWitness ==
    /\ trend_data # None
    /\ Cardinality(ValidRows(trend_data[1].history)) = SMA_WINDOW
    /\ Len(trend_data[1].history.rows) > SMA_WINDOW
    /\ filtered_stocks = <<trend_data[1].ticker>>
    /\ Cardinality(visited) = 2

\* ------------------------------------------------ properties of the scorer
\* the closed form of the recursion, in integers, for frames of finite rows:
\* atr[i] * 8^(i-1) = 7^(i-1) * tr[1] + sum over j = 2..i of
\* 7^(i-j) * 8^(j-2) * tr[j]
RECURSIVE Power(_, _)
Power(b, e) == IF e = 0 THEN 1 ELSE b * Power(b, e - 1)
Largest(a, b) == IF a < b THEN b ELSE a
Distance(a, b) == IF a < b THEN b - a ELSE a - b
TrueRangeOfRow(df, i) ==
    LET high == df[i].High.n
        low == df[i].Low.n
    IN  IF i = 1 THEN high - low
        ELSE LET before == df[i - 1].Close.n
             IN  Largest(high - low,
                         Largest(Distance(high, before), Distance(low, before)))
AtrNumerator(df, i) ==
    SumRange([j \in 1..i |->
                 IF j = 1 THEN Power(7, i - 1) * TrueRangeOfRow(df, 1)
                 ELSE Power(7, i - j) * Power(8, j - 2) * TrueRangeOfRow(df, j)],
             1, i)
\* the mean of the last 8 ATR values, times 8^Len(df)
VolatilityNumerator(df) ==
    LET n == Len(df)
    IN  SumRange([i \in 1..n |->
                     IF i > n - ATR_PERIOD
                     THEN AtrNumerator(df, i) * Power(8, n - i) ELSE 0],
                 1, n)
AllFinite(df) == \A i \in 1..Len(df) : df[i].High.k = "fin"
Scorable(fetch) ==
    /\ ~fetch.failed
    /\ fetch.daily_rows >= MIN_DAILY_ROWS
    /\ fetch.clean_rows >= MIN_DAILY_ROWS
    /\ Len(fetch.data_mo) >= MIN_MONTHS
    /\ AllFinite(fetch.data_mo)

\* C22: the volatility that divides the momentum is the mean of the last 8
\* values of the ATR smoothed recursively over the whole monthly series from
\* its first row (atr[1] = tr[1], atr[i] = tr[i]/8 + 7*atr[i-1]/8); a
\* different true range in a row before the trailing 8 rows gives a
\* different volatility.
VolatilitySmoothsWholeSeries ==
    spc = "done" /\ Scorable(score_fetch) =>
        LET df == score_fetch.data_mo
            momentum == momentum_of(df)
            numerator == VolatilityNumerator(df)
        IN  /\ IF numerator = 0 \/ isna(momentum)
               THEN score_result = None
               ELSE score_result =
                      Some(f_div(momentum, Fin(numerator, Power(8, Len(df)))))
            /\ Len(df) > ATR_PERIOD =>
                  \A high \in df[1].Close.n..MaxMonthly :
                      high # df[1].High.n =>
                          volatility_of([df EXCEPT ![1].High = Fin(high, 1)])
                              # volatility_of(df)
\* nine months scored, where smoothing the trailing 8 rows alone would give
\* another volatility
VolatilitySmoothsWholeSeriesWitness ==
    /\ spc = "done"
    /\ Scorable(score_fetch)
    /\ score_result # None
    /\ Len(score_fetch.data_mo) = ATR_PERIOD + 1
    /\ VolatilityNumerator(score_fetch.data_mo) #
          8 * VolatilityNumerator(tail_rows(score_fetch.data_mo, ATR_PERIOD))

\* ------------------------------------ the plans applied to the holdings
\* the shares of a symbol after the first n moves of the cashflow plan
RECURSIVE SharesAfterCashflow(_, _)
SharesAfterCashflow(symbol, n) ==
    IF n = 0 THEN HeldShares(symbol)
    ELSE LET m == cashflow_moves[n]
             before == SharesAfterCashflow(symbol, n - 1)
         IN  IF m.symbol # symbol THEN before
             ELSE IF m.action = "SELL" THEN before - m.suggested_shares
             ELSE before + m.suggested_shares

\* C24: applying all moves of the cashflow plan to the previous holdings
\* (SELL shares subtracted, BUY shares added) leaves every symbol that has a
\* target entry with exactly its target shares and every held symbol without
\* a target entry with 0 shares; no SELL sells more shares than are held.
CashflowPlanReachesTargets ==
    CashflowReturned =>
        /\ \A s \in RSymbols :
              LET after == SharesAfterCashflow(s, Len(cashflow_moves))
              IN  /\ HasTarget(s) => after = TargetShares(s)
                  /\ IsHeld(s) /\ ~HasTarget(s) => after = 0
        /\ \A i \in MoveIndexes(cashflow_moves) :
              cashflow_moves[i].action = "SELL" =>
                  cashflow_moves[i].suggested_shares
                      <= HeldShares(cashflow_moves[i].symbol)
\* a position reduced to a smaller positive target, a position without a
\* target sold, and a symbol bought
CashflowPlanReachesTargetsWitness ==
    /\ CashflowReturned
    /\ \E s \in RSymbols :
          /\ HasTarget(s)
          /\ 0 < TargetShares(s)
          /\ TargetShares(s) < HeldShares(s)
          /\ CashflowMovesOf(s, "SELL") # {}
    /\ \E s \in RSymbols :
          /\ IsHeld(s) /\ ~HasTarget(s) /\ HeldShares(s) > 0
          /\ CashflowMovesOf(s, "SELL") # {}
    /\ \E s \in RSymbols : CashflowMovesOf(s, "BUY") # {}

DistinctSymbols ==
    /\ \A s \in RSymbols : Cardinality(PositionsOf(s)) <= 1
    /\ \A s \in RSymbols : Cardinality(AllocationsOf(s)) <= 1
CashflowMovesNaming(symbol) ==
    {i \in MoveIndexes(cashflow_moves) : cashflow_moves[i].symbol = symbol}
SwapMovesNaming(symbol) ==
    {i \in MoveIndexes(swap_moves) :
        \/ swap_moves[i].from_symbol = Some(symbol)
        \/ swap_moves[i].to_symbol = Some(symbol)}

\* C25: with previous positions of pairwise distinct symbols and allocations
\* of pairwise distinct symbols, each symbol appears in at most one move of
\* the cashflow plan (never both a SELL and a BUY) and in at most one move
\* of the swap plan (never as from_symbol of one move and to_symbol of the
\* same or another move).
EachSymbolInOneMove ==
    DistinctSymbols =>
        /\ CashflowReturned =>
              \A s \in RSymbols :
                  /\ Cardinality(CashflowMovesNaming(s)) <= 1
                  /\ CashflowMovesOf(s, "SELL") = {}
                     \/ CashflowMovesOf(s, "BUY") = {}
        /\ SwapReturned =>
              \A s \in RSymbols :
                  /\ Cardinality(SwapMovesNaming(s)) <= 1
                  /\ SwapMovesFrom(s) = {} \/ SwapMovesTo(s) = {}
\* a held symbol with a target is moved by both plans, next to a sale and a
\* purchase of other symbols
EachSymbolInOneMoveWitness ==
    /\ SwapReturned
    /\ DistinctSymbols
    /\ \E s \in RSymbols :
          /\ IsHeld(s) /\ HasTarget(s)
          /\ Cardinality(CashflowMovesNaming(s)) = 1
          /\ Cardinality(SwapMovesNaming(s)) = 1
    /\ \E i \in MoveIndexes(swap_moves) :
          swap_moves[i].from_symbol # None /\ swap_moves[i].to_symbol # None
    /\ Len(cashflow_moves) >= 2

PlannerTargetHoldings ==
    build_target_holdings(target_allocations, current_prices, total_capital,
                          Len(target_allocations))
RECURSIVE HoldingsCost(_, _)
HoldingsCost(holdings, n) ==
    IF n = 0 THEN 0
    ELSE holdings[n].value.shares * current_prices[holdings[n].key]
         + HoldingsCost(holdings, n - 1)
WithinBudget ==
    /\ \A i \in 1..Len(target_allocations) :
          target_allocations[i].percentage >= 0
    /\ sum_percentages(target_allocations) <= ONE
    /\ total_capital >= 0

\* C26: when the allocation percentages are non-negative and sum to at most
\* 1 and the total capital is non-negative, the target holdings built by the
\* planner never cost more than the capital: the sum over the target symbols
\* of target shares times price is at most the total capital, and every
\* target share count is a non-negative integer.
TargetHoldingsWithinCapital ==
    CashflowReturned /\ WithinBudget =>
        LET holdings == PlannerTargetHoldings
        IN  /\ HoldingsCost(holdings, Len(holdings)) <= total_capital
            /\ \A i \in 1..Len(holdings) :
                  /\ holdings[i].value.shares \in Nat
                  /\ holdings[i].value.value =
                        holdings[i].value.shares
                          * current_prices[holdings[i].key]
\* two targets whose fractional shares are both dropped, all capital planned
\* but one unit
TargetHoldingsWithinCapitalWitness ==
    /\ CashflowReturned
    /\ WithinBudget
    /\ Len(PlannerTargetHoldings) >= 2
    /\ total_capital > 0
    /\ sum_percentages(target_allocations) = ONE
    /\ HoldingsCost(PlannerTargetHoldings, Len(PlannerTargetHoldings))
          = total_capital - 1

\* ------------------------------------------- the spread of the weights
StockWeight(i) == allocations[i + 1].percentage

\* C27: for every number K in 1..4 of selected symbols, every selected
\* symbol's weight is strictly positive, the last symbol's weight is greater
\* than or equal to each other symbol's weight, and it exceeds each of them
\* by less than K x 0.0001.
LastWeightAbsorbsRounding ==
    Returned =>
        LET K == Len(allocations) - 1
        IN  /\ K \in 1..TOP_N
            /\ \A i \in 1..K :
                  /\ StockWeight(i) > 0
                  /\ StockWeight(K) >= StockWeight(i)
                  /\ StockWeight(K) - StockWeight(i) < K
\* three symbols selected: 0.2333, 0.2333 and 0.2334
LastWeightAbsorbsRoundingWitness ==
    /\ Returned
    /\ Len(top_4_tickers) = 3
    /\ StockWeight(1) = 2333
    /\ StockWeight(3) = StockWeight(1) + 1
\* one symbol and four symbols selected
LastWeightAbsorbsRoundingEnds ==
    /\ Returned
    /\ Len(top_4_tickers) = 4
    /\ StockWeight(4) = StockWeight(1)
LastWeightAbsorbsRoundingSingle ==
    /\ Returned
    /\ Len(top_4_tickers) = 1
    /\ StockWeight(1) = ONE - ETF_ALLOCATION

\* ------------------------- generate_algorithm_run and confirm_positions
\* what the strategy returns when it does not raise, and what it raises
RunSymbol == "AAPL"
run_allocations == build_allocations(<<RunSymbol>>)
StrategyErrors ==
    {EmptyUniverseError, MarketConditionNotMetError, NoEligibleSymbolsError,
     NoScoresError}
SeedCapital == 4
SeedPositions == <<[symbol |-> RunSymbol, shares |-> 2, avg_price |-> 2]>>
ManualCapitals == {None, Some(SeedCapital)}
QuotedPrices == {2}
\* get_quotes of a non-empty symbol list: it raises, or returns prices (a
\* sample: every symbol at the same quoted price)
QuoteOutcomes(symbols) ==
    {[failed |-> TRUE, prices |-> <<>>]} \cup
    {[failed |-> FALSE, prices |-> [s \in symbols |-> q]] : q \in QuotedPrices}
ConfirmRequests ==
    {[positions |-> ps, uninvested_cash |-> c, force_confirm |-> f] :
        ps \in {<<>>, SeedPositions},
        c \in {0}, f \in BOOLEAN}

\* .filter(AlgorithmRun.status == RunStatus.COMPLETED)
completed_runs(runs) == {r \in runs : r.status = "completed"}
\* .order_by(AlgorithmRun.run_date.desc()).first(); run dates follow ids
latest_run(runs) ==
    IF runs = {} THEN None
    ELSE Some(CHOOSE r \in runs : \A o \in runs : o.id <= r.id)
\* run.actual_positions, in row order
positions_of_run(run_id) ==
    LET rows == {row \in actual_positions : row.run_id = run_id}
    IN  [i \in 1..Cardinality(rows) |->
            CHOOSE row \in rows : row.position_index = i]
cash_of_run(run_id) == {row \in actual_cash : row.run_id = run_id}

\* variant: only the first commit of a table is kept
session_commit_once(table, rows) == IF table = {} THEN rows ELSE table
\* db.commit(): the rows added by the session join the table
session_commit(table, rows) == table \cup rows

\* portfolio.py lines 52-60
RECURSIVE positions_value(_, _, _)
positions_value(positions, quotes, n) ==
    IF n = 0 THEN 0
    ELSE LET position == positions[n]
             rest == positions_value(positions, quotes, n - 1)
         IN  IF quotes.failed THEN rest + position.total_value_usd
             ELSE IF price_get(quotes.prices, position.symbol, 0) # 0
             THEN rest + position.actual_shares *
                         quotes.prices[position.symbol]
             ELSE rest

\* portfolio.py lines 17-66
calculate_next_capital(quotes) ==
    LET last_run == latest_run(completed_runs(algorithm_runs))
    IN  IF last_run = None
        THEN [total_capital |-> 0, uninvested_cash |-> 0, last_run |-> None]
        ELSE LET run == last_run[1]
                 positions == positions_of_run(run.id)
                 cash == cash_of_run(run.id)
             IN  IF positions = <<>> /\ cash = {}
                 THEN [total_capital |-> run.total_capital_usd,
                       uninvested_cash |-> run.uninvested_cash_usd,
                       last_run |-> Some(run.id)]
                 ELSE LET total_value ==
                            positions_value(positions, quotes, Len(positions))
                          uninvested_cash ==
                            IF cash # {}
                            THEN (CHOOSE row \in cash : TRUE)
                                    .uninvested_cash_usd
                            ELSE 0
                      IN  [total_capital |-> total_value + uninvested_cash,
                           uninvested_cash |-> uninvested_cash,
                           last_run |-> Some(run.id)]

\* lines 65-84: the run and its allocations are added to the session, the
\* flush gives the run its id
added_run(inv, id) ==
    [inv EXCEPT
        !.run = Some(id),
        !.pending =
            [NoRows EXCEPT
                !.runs = {[id |-> id, status |-> "pending",
                           total_capital_usd |-> inv.total_capital,
                           uninvested_cash_usd |-> inv.uninvested_cash]},
                !.allocations =
                    {[run_id |-> id,
                      symbol |-> run_allocations[i].symbol,
                      target_percentage |-> run_allocations[i].percentage,
                      target_amount_usd |->
                          inv.total_capital * run_allocations[i].percentage] :
                       i \in 1..Len(run_allocations)}]]

\* run_generator.py lines 41-54: the locals after the capital is known
capital_step(manual_capital, quotes) ==
    LET next == IF manual_capital # None
                THEN [total_capital |-> manual_capital[1],
                      uninvested_cash |-> 0, last_run |-> None]
                ELSE calculate_next_capital(quotes)
    IN  IF manual_capital = None /\ next.total_capital = 0
        THEN [IdleInvocation EXCEPT !.pc = "raised", !.error = NoCapitalError]
        ELSE [IdleInvocation EXCEPT
                 !.pc = "strategy",
                 !.manual_capital = manual_capital,
                 !.last_run = next.last_run,
                 !.total_capital = next.total_capital,
                 !.uninvested_cash = next.uninvested_cash]

\* variant: the run is created before the strategy is called
strategy_step_after_create(inv, raised, id) ==
    IF inv.pc # "strategy" THEN inv
    ELSE IF raised # NoError
    THEN [added_run(inv, id) EXCEPT !.pc = "raised", !.error = raised]
    ELSE [added_run(inv, id) EXCEPT !.pc = "prices"]
\* run_generator.py lines 56-84: the strategy raises, or it returns and the
\* run is created
strategy_step(inv, raised, id) ==
    IF inv.pc # "strategy" THEN inv
    ELSE IF raised # NoError
    THEN [IdleInvocation EXCEPT !.pc = "raised", !.error = raised]
    ELSE [added_run(inv, id) EXCEPT !.pc = "prices"]

\* run_generator.py lines 33-84: a call is entered; up to the flush it
\* reads the tables once (calculate_next_capital) and writes to none
BeginRun(p) ==
    /\ invocation[p].pc = "idle"
    /\ p > 1 => invocation[p - 1].pc # "idle"
    /\ Cardinality({q \in Invocations :
                       invocation[q].pc \notin {"idle", "returned", "raised"}})
          < MaxConcurrent
    /\ \E manual_capital \in ManualCapitals,
          quotes \in QuoteOutcomes({RunSymbol}),
          raised \in StrategyErrors \cup {NoError} :
         LET inv == strategy_step(capital_step(manual_capital, quotes),
                                  raised, next_run_id)
         IN  /\ invocation' = [invocation EXCEPT ![p] = inv]
             /\ next_run_id' = IF inv.run # None THEN next_run_id + 1
                               ELSE next_run_id
    /\ UNCHANGED <<algorithm_runs, recommended_allocations,
                   optimized_moves_cashflow, optimized_moves_swaps,
                   actual_positions, actual_cash, confirm_response>>
    /\ UNCHANGED <<strategyVars, regimeVars, rebalancingVars, scorerVars,
                   trendVars, fetchVars>>

\* the planner's view of the positions of a run
planner_positions(rows) ==
    [i \in 1..Len(rows) |->
        [symbol |-> rows[i].symbol, actual_shares |-> rows[i].actual_shares,
         actual_avg_price_usd |-> rows[i].actual_avg_price_usd]]
previous_positions_of(previous_run) ==
    IF previous_run = None THEN <<>>
    ELSE planner_positions(positions_of_run(previous_run[1]))

\* the commit of the session of an invocation
commit_tables(pending) ==
    /\ algorithm_runs' = session_commit(algorithm_runs, pending.runs)
    /\ recommended_allocations' =
          session_commit(recommended_allocations, pending.allocations)
    /\ optimized_moves_cashflow' =
          session_commit(optimized_moves_cashflow, pending.cashflow)
    /\ optimized_moves_swaps' =
          session_commit(optimized_moves_swaps, pending.swaps)

\* run_generator.py lines 86-110: the latest completed run is read and the
\* prices are fetched; get_quotes commits the session when it saves the
\* fetched prices to the price cache (market_data.py lines 59-61, 230-240)
FetchPrices(p) ==
    /\ invocation[p].pc = "prices"
    /\ LET inv == invocation[p]
           previous_run ==
               latest_run({r \in completed_runs(algorithm_runs) :
                              r.id # inv.run[1]})
           found == IF previous_run = None THEN None
                    ELSE Some(previous_run[1].id)
           positions == previous_positions_of(found)
           all_symbols ==
               {run_allocations[i].symbol : i \in 1..Len(run_allocations)}
               \cup {positions[i].symbol : i \in 1..Len(positions)}
       IN  \E quotes \in QuoteOutcomes(all_symbols) :
             IF quotes.failed
             THEN /\ invocation' = [invocation EXCEPT
                        ![p].pc = "moves",
                        ![p].previous_run = found,
                        ![p].current_prices = <<>>]
                  /\ UNCHANGED <<algorithm_runs, recommended_allocations,
                                 optimized_moves_cashflow,
                                 optimized_moves_swaps>>
             ELSE /\ invocation' = [invocation EXCEPT
                        ![p].pc = "moves",
                        ![p].previous_run = found,
                        ![p].current_prices = quotes.prices,
                        ![p].pending = NoRows]
                  /\ commit_tables(inv.pending)
    /\ UNCHANGED <<actual_positions, actual_cash, next_run_id,
                   confirm_response>>
    /\ UNCHANGED <<strategyVars, regimeVars, rebalancingVars, scorerVars,
                   trendVars, fetchVars>>

move_rows(run_id, moves) ==
    {[run_id |-> run_id, move |-> moves[i]] : i \in 1..Len(moves)}

\* run_generator.py lines 112-157
SaveMoves(p) ==
    /\ invocation[p].pc = "moves"
    /\ LET inv == invocation[p]
           positions == previous_positions_of(inv.previous_run)
           cashflow == calculate_cashflow_moves(positions, run_allocations,
                           inv.current_prices, inv.total_capital)
           swaps == calculate_swap_moves(positions, run_allocations,
                        inv.current_prices, inv.total_capital)
           pending == [inv.pending EXCEPT
                          !.cashflow = move_rows(inv.run[1], cashflow),
                          !.swaps = move_rows(inv.run[1], swaps)]
       IN  /\ commit_tables(pending)
           /\ invocation' = [invocation EXCEPT
                  ![p].pc = "returned",
                  ![p].current_prices = <<>>,
                  ![p].pending = NoRows]
    /\ UNCHANGED <<actual_positions, actual_cash, next_run_id,
                   confirm_response>>
    /\ UNCHANGED <<strategyVars, regimeVars, rebalancingVars, scorerVars,
                   trendVars, fetchVars>>

\* routes/runs.py lines 206-208
request_total_value(request) ==
    SumRange([i \in 1..Len(request.positions) |->
                 request.positions[i].shares * request.positions[i].avg_price],
             1, Len(request.positions))
    + request.uninvested_cash
\* routes/runs.py lines 211-214: abs((total - expected) / expected * 100) > 10
discrepancy_above_10(total_value, expected_value) ==
    /\ expected_value > 0
    /\ 10 * (IF total_value < expected_value
             THEN expected_value - total_value
             ELSE total_value - expected_value) > expected_value

\* variant: the status of the run is not looked at
confirm_result_repeatable(runs, request, quotes) ==
    IF runs = {} THEN "not_found"
    ELSE LET run == CHOOSE r \in runs : TRUE
         IN  IF discrepancy_above_10(request_total_value(request),
                                     run.total_capital_usd)
                /\ ~request.force_confirm
             THEN "discrepancy"
             ELSE IF quotes = "unavailable" /\ ~request.force_confirm
             THEN "market_data_unavailable"
             ELSE IF quotes = "error" THEN "error"
             ELSE "success"
\* routes/runs.py lines 198-235: the response of confirm_positions for the
\* rows found with the id; the quotes are "ok", "unavailable"
\* (MarketDataUnavailableError) or "error" (any other exception)
confirm_result(runs, request, quotes) ==
    IF runs = {} THEN "not_found"
    ELSE LET run == CHOOSE r \in runs : TRUE
         IN  IF run.status = "completed" THEN "already_completed"
             ELSE IF discrepancy_above_10(request_total_value(request),
                                          run.total_capital_usd)
                     /\ ~request.force_confirm
             THEN "discrepancy"
             ELSE IF quotes = "unavailable" /\ ~request.force_confirm
             THEN "market_data_unavailable"
             ELSE IF quotes = "error" THEN "error"
             ELSE "success"

\* routes/runs.py lines 240-249
position_rows(run_id, positions) ==
    {[run_id |-> run_id, position_index |-> i,
      symbol |-> positions[i].symbol,
      actual_shares |-> positions[i].shares,
      actual_avg_price_usd |-> positions[i].avg_price,
      total_value_usd |-> positions[i].shares * positions[i].avg_price] :
       i \in 1..Len(positions)}

\* routes/runs.py lines 191-269
ConfirmPositions ==
    /\ \E run_id \in 1..MaxInvocations, request \in ConfirmRequests,
          quotes \in {"ok", "unavailable", "error"} :
         LET found == {r \in algorithm_runs : r.id = run_id}
             result == confirm_result(found, request, quotes)
         IN  /\ request.positions = <<>> => quotes = "ok"
             /\ confirm_response' = result
             /\ IF result = "success"
                THEN /\ actual_positions' = actual_positions \cup
                           position_rows(run_id, request.positions)
                     /\ actual_cash' = actual_cash \cup
                           {[run_id |-> run_id,
                             uninvested_cash_usd |-> request.uninvested_cash]}
                     /\ algorithm_runs' =
                           {IF r.id = run_id
                            THEN [r EXCEPT !.status = "completed"] ELSE r :
                              r \in algorithm_runs}
                ELSE UNCHANGED <<algorithm_runs, actual_positions,
                                 actual_cash>>
    /\ UNCHANGED <<recommended_allocations, optimized_moves_cashflow,
                   optimized_moves_swaps, next_run_id, invocation>>
    /\ UNCHANGED <<strategyVars, regimeVars, rebalancingVars, scorerVars,
                   trendVars, fetchVars>>

\* a database left by an earlier run of the program: one run, generated
\* with a manual capital of 4 and prices of 2, confirmed with 2 shares
\* bought at 2 and no cash
SeedPrices == [s \in {run_allocations[i].symbol :
                         i \in 1..Len(run_allocations)} |-> 2]
SeededDatabase ==
    LET rows == added_run([IdleInvocation EXCEPT
                              !.total_capital = SeedCapital], 1).pending
    IN  /\ algorithm_runs =
              {[r EXCEPT !.status = "completed"] : r \in rows.runs}
        /\ recommended_allocations = rows.allocations
        /\ optimized_moves_cashflow =
              move_rows(1, calculate_cashflow_moves(<<>>, run_allocations,
                                                    SeedPrices, SeedCapital))
        /\ optimized_moves_swaps =
              move_rows(1, calculate_swap_moves(<<>>, run_allocations,
                                                SeedPrices, SeedCapital))
        /\ actual_positions = position_rows(1, SeedPositions)
        /\ actual_cash = {[run_id |-> 1, uninvested_cash_usd |-> 0]}
        /\ next_run_id = 2

\* the program starts on an empty database or on the one left by an
\* earlier run
InitRuns ==
    /\ StrategyIdle
    /\ RegimeIdle
    /\ RebalancingIdle
    /\ ScorerIdle
    /\ TrendIdle
    /\ FetchIdle
    /\ EmptyDatabase \/ SeededDatabase
    /\ invocation = [p \in Invocations |-> IdleInvocation]
    /\ confirm_response = NoResponse

NextRuns ==
    \/ \E p \in Invocations :
         \/ BeginRun(p)
         \/ FetchPrices(p)
         \/ SaveMoves(p)
    \/ ConfirmPositions

SpecRuns == InitRuns /\ [][NextRuns]_vars

\* ------------------------------------- MarketDataService._fetch_from_yahoo
MaxRetries == 2
FetchedPrices == {0, 3}
CachedPrices == {0, 2}
\* what Yahoo answers to one attempt: per symbol the fast_info price (None
\* when there is none or the request raised), whether yf.download raises,
\* and per symbol the close taken from the downloaded frame
YahooResponses(symbols) ==
    {[fast |-> f, download_raises |-> r, close |-> c] :
        f \in [symbols -> {None} \cup {Some(v) : v \in FetchedPrices}],
        r \in BOOLEAN,
        c \in [symbols -> {None} \cup {Some(v) : v \in FetchedPrices}]}
\* the answers that differ in a part the attempt reads
ReadResponses(symbols) ==
    {y \in YahooResponses(symbols) :
        /\ \A s \in symbols : y.fast[s] # None => y.close[s] = None
        /\ (\A s \in symbols : y.fast[s] # None) => ~y.download_raises
        /\ y.download_raises => \A s \in symbols : y.close[s] = None}

\* market_data.py lines 244-252 followed by `if cached:`
cached_price(cache, symbol) ==
    IF cache[symbol] # None /\ cache[symbol][1] # 0 THEN cache[symbol]
    ELSE None

\* market_data.py lines 141-205: the prices of the attempt, or None when
\* it raises
attempt_prices(symbols, cache, y) ==
    LET missing == {s \in symbols : y.fast[s] = None}
        unpriced == {s \in missing :
                        y.close[s] = None /\ cached_price(cache, s) = None}
    IN  IF missing # {} /\ (y.download_raises \/ unpriced # {}) THEN None
        ELSE Some([s \in symbols |->
                      IF y.fast[s] # None THEN y.fast[s][1]
                      ELSE IF y.close[s] # None THEN y.close[s][1]
                      ELSE cached_price(cache, s)[1]])

\* market_data.py lines 211-222
cache_fallback(symbols, cache) ==
    LET cached == {s \in symbols : cached_price(cache, s) # None}
    IN  IF cached # {}
        THEN [kind |-> "cached",
              prices |-> [s \in cached |-> cached_price(cache, s)[1]]]
        ELSE [kind |-> "unavailable", prices |-> <<>>]

\* variant: every failed attempt is the last one
is_last_attempt_always(n, retries) == TRUE
\* market_data.py line 209
is_last_attempt(n, retries) == n = retries - 1

InitFetch ==
    /\ StrategyIdle
    /\ RegimeIdle
    /\ RebalancingIdle
    /\ ScorerIdle
    /\ TrendIdle
    /\ RunsIdle
    /\ fetch_pc = "attempt"
    /\ fetch_symbols \in SUBSET FetchUniverse \ {{}}
    /\ retry_count \in 1..MaxRetries
    /\ attempt = 0
    /\ attempts_made = 0
    /\ price_cache \in [FetchUniverse ->
                          {None} \cup {Some(v) : v \in CachedPrices}]
    /\ yahoo = None
    /\ fetch_outcome = None

\* market_data.py lines 139-222: one iteration of the retry loop
FetchAttempt ==
    /\ fetch_pc = "attempt"
    /\ attempt < retry_count
    /\ \E y \in ReadResponses(fetch_symbols) :
         LET prices == attempt_prices(fetch_symbols, price_cache, y)
         IN  /\ yahoo' = Some(y)
             /\ IF prices # None
                THEN /\ fetch_outcome' =
                           Some([kind |-> "prices", prices |-> prices[1]])
                     /\ fetch_pc' = "done"
                ELSE IF is_last_attempt(attempt, retry_count)
                THEN /\ fetch_outcome' =
                           Some(cache_fallback(fetch_symbols, price_cache))
                     /\ fetch_pc' = "done"
                ELSE /\ fetch_outcome' = None
                     /\ fetch_pc' = "sleep"
    /\ attempts_made' = attempts_made + 1
    /\ UNCHANGED <<fetch_symbols, retry_count, attempt, price_cache>>
    /\ UNCHANGED <<strategyVars, regimeVars, rebalancingVars, scorerVars,
                   trendVars, runsVars>>

\* market_data.py lines 224-226 and the next value of the loop variable
Backoff ==
    /\ fetch_pc = "sleep"
    /\ attempt' = attempt + 1
    /\ fetch_pc' = "attempt"
    /\ UNCHANGED <<fetch_symbols, retry_count, attempts_made, price_cache,
                   yahoo, fetch_outcome>>
    /\ UNCHANGED <<strategyVars, regimeVars, rebalancingVars, scorerVars,
                   trendVars, runsVars>>

NextFetch == FetchAttempt \/ Backoff

\* the calls to Yahoo return and the sleep ends
SpecFetch == InitFetch /\ [][NextFetch]_vars /\ WF_vars(NextFetch)

\* --------------------------------------------- properties of the runs
RunRow(id) == {r \in algorithm_runs : r.id = id}
AllocationRows(id) == {a \in recommended_allocations : a.run_id = id}
CashflowRows(id) == {m \in optimized_moves_cashflow : m.run_id = id}
SwapRows(id) == {m \in optimized_moves_swaps : m.run_id = id}
HasReturned(p) == invocation[p].pc = "returned"
\* two calls that computed their capital from the same completed run
ReadSameCompletedRun(p, q) ==
    /\ p # q
    /\ HasReturned(p) /\ HasReturned(q)
    /\ invocation[p].manual_capital = None
    /\ invocation[q].manual_capital = None
    /\ invocation[p].last_run # None
    /\ invocation[p].last_run = invocation[q].last_run

\* C23: nothing prevents two concurrent invocations of
\* generate_algorithm_run from both reading the same last completed run and
\* each persisting its own new run: whenever two calls that read the same
\* last completed run have returned, each has its own run row, with its own
\* id, the capital it computed and its allocation rows, in the database.
ConcurrentRunsBothPersisted ==
    \A p, q \in Invocations :
        ReadSameCompletedRun(p, q) =>
            /\ invocation[p].run # invocation[q].run
            /\ \A c \in {p, q} :
                  LET id == invocation[c].run[1]
                  IN  /\ \E r \in RunRow(id) :
                            r.total_capital_usd = invocation[c].total_capital
                      /\ Cardinality(RunRow(id)) = 1
                      /\ {a.symbol : a \in AllocationRows(id)} =
                            {run_allocations[i].symbol :
                               i \in 1..Len(run_allocations)}
\* two PENDING runs with the same capital, each with its own moves computed
\* from the positions of the same completed run
ConcurrentRunsBothPersistedWitness ==
    \E p, q \in Invocations :
        /\ ReadSameCompletedRun(p, q)
        /\ invocation[p].previous_run = invocation[p].last_run
        /\ invocation[q].previous_run = invocation[p].last_run
        /\ invocation[p].total_capital = invocation[q].total_capital
        /\ \A c \in {p, q} :
              /\ \E r \in RunRow(invocation[c].run[1]) : r.status = "pending"
              /\ CashflowRows(invocation[c].run[1]) # {}
              /\ SwapRows(invocation[c].run[1]) # {}

\* C28: when generate_algorithm_run fails because no capital is available
\* or because the strategy raises, no run, allocation or move row has been
\* added: the step in which a call raises leaves every table as it was, and
\* the call's session holds no added row and no run id was taken.
FailedGenerationAddsNoRow ==
    [][\A p \in Invocations :
          invocation[p].pc # "raised" /\ invocation'[p].pc = "raised" =>
              /\ algorithm_runs' = algorithm_runs
              /\ recommended_allocations' = recommended_allocations
              /\ optimized_moves_cashflow' = optimized_moves_cashflow
              /\ optimized_moves_swaps' = optimized_moves_swaps
              /\ next_run_id' = next_run_id
              /\ invocation'[p].pending = NoRows
              /\ invocation'[p].run = None]_vars
\* one call failed for want of capital and another because the strategy
\* raised
FailedGenerationAddsNoRowWitness ==
    \E p, q \in Invocations :
        /\ invocation[p].pc = "raised"
        /\ invocation[p].error = NoCapitalError
        /\ invocation[q].pc = "raised"
        /\ invocation[q].error \in StrategyErrors
\* a call failed for want of capital although a completed run exists (it
\* was confirmed without positions and without cash)
NoCapitalAfterEmptyConfirmation ==
    \E p \in Invocations :
        /\ invocation[p].pc = "raised"
        /\ invocation[p].error = NoCapitalError
        /\ completed_runs(algorithm_runs) # {}

\* the step of confirm_positions: the only one that leaves every call where
\* it is
ConfirmStep == invocation' = invocation
PositionsAndCashOnlyForCompleted ==
    \A row \in actual_positions \cup actual_cash :
        \E r \in RunRow(row.run_id) : r.status = "completed"
StatusStep ==
    /\ \A r \in algorithm_runs' :
          RunRow(r.id) = {} => r.status = "pending"
    /\ \A r \in algorithm_runs :
          \E n \in algorithm_runs' :
             /\ n.id = r.id
             /\ n.status # r.status =>
                   /\ r.status = "pending"
                   /\ n.status = "completed"
                   /\ ConfirmStep
                   /\ confirm_response' = "success"
    /\ ~ConfirmStep =>
          actual_positions' = actual_positions /\ actual_cash' = actual_cash
    /\ ConfirmStep /\ confirm_response' # "success" => UNCHANGED tableVars
    /\ \A row \in (actual_positions' \ actual_positions)
                    \cup (actual_cash' \ actual_cash) :
          \E r \in RunRow(row.run_id) : r.status = "pending"

\* C29: a run's status only ever changes from PENDING to COMPLETED, through
\* confirm_positions: a run is created PENDING; confirm_positions on a
\* COMPLETED run is rejected and changes nothing; a call that returns a
\* warning (value discrepancy above 10% or market data unavailable, without
\* force_confirm) writes no position or cash row and leaves the run PENDING;
\* actual positions and actual cash exist only for COMPLETED runs.
StatusOnlyPendingToCompleted ==
    /\ []PositionsAndCashOnlyForCompleted
    /\ [][StatusStep]_vars
\* a run generated by a call has been confirmed
StatusOnlyPendingToCompletedWitness ==
    /\ confirm_response = "success"
    /\ \E p \in Invocations :
          /\ HasReturned(p)
          /\ \E r \in RunRow(invocation[p].run[1]) : r.status = "completed"
          /\ \E row \in actual_positions : row.run_id = invocation[p].run[1]
ConfirmationRejected ==
    confirm_response = "already_completed" /\ algorithm_runs # {}
ConfirmationWarned ==
    /\ confirm_response \in {"discrepancy", "market_data_unavailable"}
    /\ \E r \in algorithm_runs : r.status = "pending"

\* ------------------------------------------ properties of the price fetch
FetchDone == fetch_pc = "done"
LastAttemptFailed ==
    /\ attempts_made = retry_count
    /\ yahoo # None
    /\ \E s \in fetch_symbols :
          /\ yahoo[1].fast[s] = None
          /\ \/ yahoo[1].download_raises
             \/ \E t \in fetch_symbols :
                   /\ yahoo[1].fast[t] = None
                   /\ yahoo[1].close[t] = None
                   /\ price_cache[t] \in {None, Some(0)}
\* the price the latest attempt has for a symbol: fast_info, else the
\* downloaded close, else the cached price
AttemptPriceOf(s) ==
    IF yahoo[1].fast[s] # None THEN yahoo[1].fast[s][1]
    ELSE IF yahoo[1].close[s] # None THEN yahoo[1].close[s][1]
    ELSE price_cache[s][1]
FetchBounded ==
    /\ attempts_made <= retry_count
    /\ fetch_pc = "sleep" =>
          /\ attempts_made < retry_count
          /\ fetch_outcome = None
    /\ fetch_outcome # None =>
          /\ FetchDone
          /\ fetch_outcome[1].kind \in {"prices", "cached", "unavailable"}
          /\ fetch_outcome[1].kind = "prices" =>
                /\ ~LastAttemptFailed
                /\ DOMAIN fetch_outcome[1].prices = fetch_symbols
                /\ \A s \in fetch_symbols :
                      fetch_outcome[1].prices[s] = AttemptPriceOf(s)
          /\ fetch_outcome[1].kind # "prices" => LastAttemptFailed
\* the outcome after the last failed attempt, for the symbols counted as
\* having a cached price
FallbackOutcome(cached) ==
    fetch_outcome # None =>
        /\ fetch_outcome[1].kind = "cached" =>
              /\ cached # {}
              /\ DOMAIN fetch_outcome[1].prices = cached
              /\ \A s \in cached :
                    fetch_outcome[1].prices[s] = price_cache[s][1]
        /\ fetch_outcome[1].kind = "unavailable" => cached = {}
SymbolsWithCache == {s \in fetch_symbols : price_cache[s] # None}
SymbolsWithNonZeroCache ==
    {s \in fetch_symbols : price_cache[s] \notin {None, Some(0)}}

\* C30 as stated: at most retry_count attempts, and the call always ends
\* with the prices of a successful attempt or, after the last failed
\* attempt, with the cached prices of whichever requested symbols have one,
\* if at least one has, else with MarketDataUnavailableError; a failed
\* attempt before the last one is never answered from the cache.
FetchEndsInOneOfThreeOutcomes ==
    /\ [](FetchBounded /\ FallbackOutcome(SymbolsWithCache))
    /\ <>FetchDone

\* C30, amended: the same, where the symbols answered from the cache after
\* the last failed attempt are those whose cached price is not zero (a
\* cached price of 0 counts as no cached price), and the error is raised
\* when no requested symbol has a non-zero cached price.
FetchEndsWithNonZeroCachedPrices ==
    /\ [](FetchBounded /\ FallbackOutcome(SymbolsWithNonZeroCache))
    /\ <>FetchDone
\* the second of two attempts failed and the call returned the cached price
\* of one symbol, the other symbol being cached at 0
FetchEndsWithNonZeroCachedPricesWitness ==
    /\ FetchDone
    /\ attempts_made = 2
    /\ fetch_outcome[1].kind = "cached"
    /\ fetch_symbols = FetchUniverse
    /\ \E s \in fetch_symbols : price_cache[s] = Some(0)
FetchUnavailableWithZeroCache ==
    /\ FetchDone
    /\ fetch_outcome[1].kind = "unavailable"
    /\ SymbolsWithCache # {}

====
